---- MODULE Spec2Model ----
(***************************************************************************)
(* Webhook reconciliation and status synchronisation of the stripe-backend *)
(* service: the Company and PaymentTransaction stores, the webhook handler *)
(* (stripeWebhookController.js) and the API operations that write the same *)
(* rows (stripeController.js, companyController.js).                       *)
(*                                                                         *)
(* One action is one request handled to completion.  `last` records the    *)
(* request just handled, the outcomes of the external calls it made, its   *)
(* response status and the ordered list of external/store calls it issued. *)
(* `applied` remembers payment events that were acknowledged after they    *)
(* changed a row, and `running` holds the requests that are in progress    *)
(* where requests are followed call by call.                               *)
(*                                                                         *)
(* Spec runs every operation.  SpecTransactions runs the operations on the *)
(* PaymentTransaction store and SpecCompanies those on the Company store;  *)
(* both include the deliveries that are rejected or have no case.          *)
(***************************************************************************)
EXTENDS Integers, Sequences, FiniteSets, TLC

VARIABLES env, companies, transactions, last, applied, running

vars == <<env, companies, transactions, last, applied, running>>

----------------------------------------------------------------------------
(* Bounds *)

\* largest current_period_end (epoch seconds) a subscription payload carries
MaxPeriodEnd == 2
\* Date.now() is read as 1500 ms, 2500 ms, ... up to this many seconds
MaxClockSeconds == 2

----------------------------------------------------------------------------
(* Values *)

\* JS null / undefined / an unset environment variable
NULL == "null"

\* a DATE column: <<>> is SQL NULL, <<ms>> is the instant ms after the epoch
NoDate == <<>>

CompanyIds == {"c1", "c2"}
TransactionIds == {"t1", "t2"}

\* customer ids carried by events; "cus_9" belongs to no Company
CustomerRefs == {"cus_1", "cus_9"}
SubscriptionIds == {"sub_1"}
\* payment-intent ids carried by events; "pi_3" is the intent that
\* createPaymentIntent creates, "pi_9" belongs to no transaction
PaymentIntentRefs == {"pi_1", "pi_3", "pi_9"}
SubscriptionStatuses == {"active", "canceled", "unpaid"}
PriceIds == {"price_basic", "price_premium", "price_other"}
\* subscription.items.data as the list of its price ids
ItemLists == {<<>>} \cup {<<p>> : p \in PriceIds}
PeriodEnds == {0, MaxPeriodEnd}
\* values of Date.now() in milliseconds
Times == {1000 * s + 500 : s \in 1..MaxClockSeconds}

\* process.env: the two plan ids and whether the two sink URLs are set.
\* The four configurations cover every combination of the plan ids and
\* every combination of the sink URLs.
EnvConfigs ==
    { [basic |-> "price_basic", premium |-> "price_premium", logging |-> TRUE,  notification |-> TRUE],
      [basic |-> NULL,          premium |-> NULL,            logging |-> FALSE, notification |-> FALSE],
      [basic |-> "price_basic", premium |-> NULL,            logging |-> FALSE, notification |-> TRUE],
      [basic |-> NULL,          premium |-> "price_premium", logging |-> TRUE,  notification |-> FALSE] }

\* PaymentTransaction.status ENUM
TransactionStatusEnum == {"pending", "succeeded", "failed", "canceled", "refunded"}
\* PaymentTransaction.internalStatus ENUM
InternalStatusEnum == {"awaiting_approval", "approved", "rejected", "fulfilled", "canceled_by_business"}
\* updateTransactionInternalStatus: allowedInternalStatuses
allowedInternalStatuses == {"awaiting_approval", "approved", "declined", "fulfilled", "canceled_by_business"}

\* the event types handleWebhook has a case for
HandledTypes ==
    { "checkout.session.completed", "customer.subscription.created",
      "customer.subscription.updated", "customer.subscription.deleted",
      "invoice.paid", "invoice.payment_failed",
      "payment_intent.succeeded", "payment_intent.payment_failed" }

\* a Stripe Subscription object
SubscriptionObjects ==
    [id : SubscriptionIds, customer : CustomerRefs, status : SubscriptionStatuses,
     items : ItemLists, current_period_end : PeriodEnds]

\* the stripe-signature header of a delivery: absent, valid for the body,
\* computed over another body, or valid but older than the tolerance
Signatures == {"missing", "valid", "mismatch", "stale"}

----------------------------------------------------------------------------
(* Rows *)

\* a Company row as Company.create leaves it (accessLevel defaults to free)
NewCompany ==
    [stripeAccountId |-> NULL, stripeCustomerId |-> NULL, stripeSubscriptionId |-> NULL,
     subscriptionStatus |-> NULL, accessLevel |-> "free", subscriptionExpiresAt |-> NoDate]

\* the customer id stripe.customers.create returns for a company
CustomerIdFor == [c \in CompanyIds |-> IF c = "c1" THEN "cus_1" ELSE "cus_2"]

\* a PaymentTransaction row as PaymentTransaction.create leaves it
NewTransaction(pi, sub) ==
    [companyId |-> "c1", customer |-> "cus_tester", amount |-> 2000, currency |-> "usd",
     stripePaymentIntentId |-> pi, stripeSubscriptionId |-> sub,
     status |-> "pending", internalStatus |-> "awaiting_approval",
     metadata |-> [k \in {"customerId"} |-> "cus_tester"]]

\* { ...metadata, [key]: value }
Spread(metadata, key, value) ==
    [k \in (DOMAIN metadata) \cup {key} |-> IF k = key THEN value ELSE metadata[k]]

----------------------------------------------------------------------------
(* The record of the request just handled *)

\* event.data.object, with the fields the handler reads
NoObject ==
    [id |-> NULL, customer |-> NULL, status |-> NULL, items |-> <<>>, current_period_end |-> 0,
     mode |-> NULL, subscription |-> NULL, payment_intent |-> NULL, billing_reason |-> NULL]

NoSubscription ==
    [id |-> NULL, customer |-> NULL, status |-> NULL, items |-> <<>>, current_period_end |-> 0]

\* what Subscription Sync was called with and what it did
NoSync ==
    [ran |-> FALSE, customer |-> NULL, id |-> NULL, status |-> NULL, items |-> <<>>,
     current_period_end |-> 0, found |-> FALSE, planLevel |-> NULL, committed |-> FALSE]

\* the outcomes of the external calls of one request: the two sinks, the
\* store, the processor calls in the order they are made (TRUE: the call
\* returned), the subscription a retrieve returned, Date.now(), the type
\* of the error a failed processor call threw, whether the store accepts
\* the literal key of createPaymentIntent, and whether the store, having
\* answered findOne, also answers company.update
NoExt ==
    [logOk |-> TRUE, notifOk |-> TRUE, dbOk |-> TRUE, stripe |-> <<>>,
     subscription |-> NoSubscription, now |-> 0, errorType |-> NULL, keyOk |-> TRUE,
     updateOk |-> TRUE]

\* the parameters, body fields, query fields and gateway headers of an
\* API request
NoArgs ==
    [id |-> NULL, internalStatus |-> NULL, notes |-> NULL, stripeAccountId |-> NULL,
     priceId |-> NULL, complete |-> TRUE,
     status |-> NULL, customerId |-> NULL, limit |-> NULL, offset |-> NULL,
     userId |-> NULL, userCompanyId |-> NULL, userRole |-> NULL]

NoRequest ==
    [op |-> "none", type |-> NULL, sig |-> NULL, object |-> NoObject, args |-> NoArgs,
     ext |-> NoExt, res |-> 0, trace |-> <<>>, sync |-> NoSync, redelivery |-> FALSE,
     body |-> <<>>]

----------------------------------------------------------------------------
(* Subscription Sync *)

\* a mapping whose default grants the basic tier
getAccessLevelDefaultingToBasic(stripePriceId) ==
    IF stripePriceId = env.premium THEN "premium" ELSE "basic"

\* getAccessLevelFromStripePlan: a switch over the two configured plan ids
getAccessLevelFromStripePlan(stripePriceId) ==
    IF stripePriceId = env.basic THEN "basic"
    ELSE IF stripePriceId = env.premium THEN "premium"
    ELSE "free"

\* lines 76-81: the level the plan of the first item maps to
PlanLevel(subscriptionData) ==
    IF Len(subscriptionData.items) > 0
    THEN getAccessLevelFromStripePlan(subscriptionData.items[1])
    ELSE "free"

\* an override that forgets the unpaid status
OverrideCanceledOnly(newStatus, planLevel) ==
    IF newStatus = "canceled" THEN "free" ELSE planLevel

\* lines 84-86: canceled or unpaid subscriptions grant nothing
OverrideLevel(newStatus, planLevel) ==
    IF newStatus = "canceled" \/ newStatus = "unpaid" THEN "free" ELSE planLevel

\* a conversion that takes the epoch seconds for milliseconds
PeriodEndWithoutConversion(current_period_end) ==
    IF current_period_end # 0 THEN <<current_period_end>> ELSE NoDate

\* line 75: epoch seconds to a Date; a falsy period end gives null
PeriodEndDate(current_period_end) ==
    IF current_period_end # 0 THEN <<current_period_end * 1000>> ELSE NoDate

\* CompanyModel.findOne({ where: { stripeCustomerId } })
FindCompanyByCustomer(cs, stripeCustomerId) ==
    {c \in DOMAIN cs : cs[c].stripeCustomerId = stripeCustomerId}

\* the fields company.update writes
\* a sync that also drops the connected account of the Company
SyncedCompanyWithoutAccount(row, subscriptionData) ==
    [row EXCEPT !.stripeSubscriptionId = subscriptionData.id,
                !.subscriptionStatus = subscriptionData.status,
                !.stripeAccountId = "acct_synced"]

SyncedCompany(row, subscriptionData) ==
    [row EXCEPT !.stripeSubscriptionId = subscriptionData.id,
                !.subscriptionStatus = subscriptionData.status,
                !.accessLevel = OverrideLevel(subscriptionData.status, PlanLevel(subscriptionData)),
                !.subscriptionExpiresAt = PeriodEndDate(subscriptionData.current_period_end)]

\* the unique index on companies.stripeSubscriptionId
SubscriptionIdFree(cs, c, subId) ==
    \A d \in DOMAIN cs : d # c => cs[d].stripeSubscriptionId # subId

\* updateCompanySubscriptionStatus: the result is the Company store, the
\* store calls made and the record of the run.  Every error is caught and
\* logged inside the function (lines 98-100).
updateCompanySubscriptionStatus(cs, stripeCustomerId, subscriptionData, dbOk, updateOk) ==
    LET found == FindCompanyByCustomer(cs, stripeCustomerId)
        rec == [ran |-> TRUE, customer |-> stripeCustomerId, id |-> subscriptionData.id,
                status |-> subscriptionData.status, items |-> subscriptionData.items,
                current_period_end |-> subscriptionData.current_period_end,
                found |-> FALSE, planLevel |-> NULL, committed |-> FALSE]
    IN  IF ~dbOk
        THEN [companies |-> cs, calls |-> <<"Company.findOne">>, sync |-> rec]
        ELSE IF found = {}
        THEN [companies |-> cs, calls |-> <<"Company.findOne">>, sync |-> rec]
        ELSE LET c == CHOOSE c \in found : TRUE
                 ok == updateOk /\ SubscriptionIdFree(cs, c, subscriptionData.id)
             IN  [companies |-> IF ok THEN [cs EXCEPT ![c] = SyncedCompany(cs[c], subscriptionData)]
                                ELSE cs,
                  calls |-> <<"Company.findOne", "company.update">>,
                  sync |-> [rec EXCEPT !.found = TRUE,
                                       !.planLevel = PlanLevel(subscriptionData),
                                       !.committed = ok]]

----------------------------------------------------------------------------
(* Transaction store *)

\* the store rejects a write whose enum columns hold a value outside the ENUM
\* a column type that takes any string
AcceptsAnyValue(status, internalStatus) == TRUE

EnumAccepts(status, internalStatus) ==
    /\ status \in TransactionStatusEnum
    /\ internalStatus \in InternalStatusEnum

\* an update that leaves the where clause out and so writes every row
UpdateEveryTransaction(txs, status, internalStatus, paymentIntentId) ==
    [t \in DOMAIN txs |-> [txs[t] EXCEPT !.status = status, !.internalStatus = internalStatus]]

\* PaymentTransaction.update(values, { where: { stripePaymentIntentId } })
UpdateByPaymentIntent(txs, status, internalStatus, paymentIntentId) ==
    [t \in DOMAIN txs |->
        IF txs[t].stripePaymentIntentId = paymentIntentId
        THEN [txs[t] EXCEPT !.status = status, !.internalStatus = internalStatus]
        ELSE txs[t]]

----------------------------------------------------------------------------
(* handleWebhook *)

\* a verification that checks the signature but not the age of its timestamp
constructEventWithoutTolerance(sig) == sig \in {"valid", "stale"}

\* stripe.webhooks.constructEvent: throws unless the header is present,
\* matches the raw body and is within the tolerance
constructEvent(sig) == sig = "valid"

\* the outcome of a case of the switch
Outcome(cs, txs, calls, threw, sync) ==
    [companies |-> cs, transactions |-> txs, calls |-> calls, threw |-> threw, sync |-> sync]

\* await updateCompanySubscriptionStatus(Company, customer, data)
SyncOutcome(calls, customer, data, ext) ==
    LET r == updateCompanySubscriptionStatus(companies, customer, data, ext.dbOk, ext.updateOk)
    IN  Outcome(r.companies, transactions, calls \o r.calls, FALSE, r.sync)

\* axios.post(NOTIFICATION_SERVICE_URL) when the URL is configured; a
\* failure is swallowed only where the call sits inside try/catch
Notify(o, ext, caught) ==
    IF env.notification
    THEN [o EXCEPT !.calls = @ \o <<"notify">>, !.threw = ~caught /\ ~ext.notifOk]
    ELSE o

\* a re-fetch whose failure is caught and logged like a sink failure
RetrieveAndSyncSwallowingErrors(ext) ==
    IF ext.stripe[1]
    THEN SyncOutcome(<<"subscriptions.retrieve">>, ext.subscription.customer, ext.subscription, ext)
    ELSE Outcome(companies, transactions, <<"subscriptions.retrieve">>, FALSE, NoSync)

\* stripe.subscriptions.retrieve(id) followed by Subscription Sync
RetrieveAndSync(ext) ==
    IF ext.stripe[1]
    THEN SyncOutcome(<<"subscriptions.retrieve">>, ext.subscription.customer, ext.subscription, ext)
    ELSE Outcome(companies, transactions, <<"subscriptions.retrieve">>, TRUE, NoSync)

\* await PaymentTransaction.update({status, internalStatus}, {where: {stripePaymentIntentId}})
PaymentIntentUpdate(status, internalStatus, paymentIntentId, ext) ==
    IF ext.dbOk /\ EnumAccepts(status, internalStatus)
    THEN Outcome(companies, UpdateByPaymentIntent(transactions, status, internalStatus, paymentIntentId),
                 <<"PaymentTransaction.update">>, FALSE, NoSync)
    ELSE Outcome(companies, transactions, <<"PaymentTransaction.update">>, TRUE, NoSync)

NoOp == Outcome(companies, transactions, <<>>, FALSE, NoSync)

\* a checkout case that approves the one-time payment it records
CheckoutSessionApproving(dataObject, ext) ==
    IF dataObject.mode = "subscription" /\ dataObject.subscription # NULL
    THEN RetrieveAndSync(ext)
    ELSE IF dataObject.mode = "payment" /\ dataObject.payment_intent # NULL
    THEN PaymentIntentUpdate("succeeded", "approved", dataObject.payment_intent, ext)
    ELSE NoOp

\* case 'checkout.session.completed'
CheckoutSessionCompleted(dataObject, ext) ==
    IF dataObject.mode = "subscription" /\ dataObject.subscription # NULL
    THEN RetrieveAndSync(ext)
    ELSE IF dataObject.mode = "payment" /\ dataObject.payment_intent # NULL
    THEN PaymentIntentUpdate("succeeded", "awaiting_approval", dataObject.payment_intent, ext)
    ELSE NoOp

\* case 'customer.subscription.created': the welcome message reads
\* items.data[0].price.id inside the try block
SubscriptionCreated(dataObject, ext) ==
    LET o == SyncOutcome(<<>>, dataObject.customer, dataObject, ext)
    IN  IF Len(dataObject.items) > 0 THEN Notify(o, ext, TRUE) ELSE o

\* case 'customer.subscription.updated'
SubscriptionUpdated(dataObject, ext) ==
    SyncOutcome(<<>>, dataObject.customer, dataObject, ext)

\* a synthesized payload that keeps the period end of the event
DeletedPayloadWithEventPeriod(dataObject, now) ==
    [id |-> dataObject.id, customer |-> dataObject.customer, status |-> "canceled",
     items |-> <<IF env.basic # NULL THEN env.basic ELSE "free">>,
     current_period_end |-> dataObject.current_period_end]

\* case 'customer.subscription.deleted': Sync with a synthesized payload
DeletedPayload(dataObject, now) ==
    [id |-> dataObject.id, customer |-> dataObject.customer, status |-> "canceled",
     items |-> <<IF env.basic # NULL THEN env.basic ELSE "free">>,
     current_period_end |-> now \div 1000]

SubscriptionDeleted(dataObject, ext) ==
    Notify(SyncOutcome(<<>>, dataObject.customer, DeletedPayload(dataObject, ext.now), ext), ext, TRUE)

\* an invoice case that tries the re-fetch for every billing reason and
\* finds no subscription for the others
InvoicePaidRetrievingAlways(dataObject, ext) ==
    IF dataObject.billing_reason = "subscription_create" \/ dataObject.billing_reason = "subscription_cycle"
    THEN RetrieveAndSync(ext)
    ELSE Outcome(companies, transactions, <<"subscriptions.retrieve">>, TRUE, NoSync)

\* case 'invoice.paid'
InvoicePaid(dataObject, ext) ==
    IF dataObject.billing_reason = "subscription_create" \/ dataObject.billing_reason = "subscription_cycle"
    THEN RetrieveAndSync(ext)
    ELSE NoOp

\* case 'invoice.payment_failed': the notification is awaited outside any try
InvoicePaymentFailed(dataObject, ext) ==
    IF dataObject.subscription # NULL
    THEN LET o == RetrieveAndSync(ext)
         IN  IF o.threw THEN o ELSE Notify(o, ext, FALSE)
    ELSE NoOp

\* case 'payment_intent.succeeded'
PaymentIntentSucceeded(dataObject, ext) ==
    PaymentIntentUpdate("succeeded", "awaiting_approval", dataObject.id, ext)

\* case 'payment_intent.payment_failed'
PaymentIntentFailed(dataObject, ext) ==
    PaymentIntentUpdate("failed", "declined", dataObject.id, ext)

\* a switch whose default falls into the subscription-updated case
SwitchWithoutDefault(type, dataObject, ext) ==
    CASE type = "checkout.session.completed" -> CheckoutSessionCompleted(dataObject, ext)
      [] type = "customer.subscription.created" -> SubscriptionCreated(dataObject, ext)
      [] type = "customer.subscription.deleted" -> SubscriptionDeleted(dataObject, ext)
      [] type = "invoice.paid" -> InvoicePaid(dataObject, ext)
      [] type = "invoice.payment_failed" -> InvoicePaymentFailed(dataObject, ext)
      [] type = "payment_intent.succeeded" -> PaymentIntentSucceeded(dataObject, ext)
      [] type = "payment_intent.payment_failed" -> PaymentIntentFailed(dataObject, ext)
      [] OTHER -> SubscriptionUpdated(dataObject, ext)

\* switch (event.type)
Switch(type, dataObject, ext) ==
    CASE type = "checkout.session.completed" -> CheckoutSessionCompleted(dataObject, ext)
      [] type = "customer.subscription.created" -> SubscriptionCreated(dataObject, ext)
      [] type = "customer.subscription.updated" -> SubscriptionUpdated(dataObject, ext)
      [] type = "customer.subscription.deleted" -> SubscriptionDeleted(dataObject, ext)
      [] type = "invoice.paid" -> InvoicePaid(dataObject, ext)
      [] type = "invoice.payment_failed" -> InvoicePaymentFailed(dataObject, ext)
      [] type = "payment_intent.succeeded" -> PaymentIntentSucceeded(dataObject, ext)
      [] type = "payment_intent.payment_failed" -> PaymentIntentFailed(dataObject, ext)
      [] OTHER -> NoOp

\* the audit-log call of lines 134-150, made when LOGGING_SERVICE_URL is set;
\* its failure is caught
LogCall == IF env.logging THEN <<"log">> ELSE <<>>

\* a wrapper that leaves a rejection unhandled: no response is sent
asyncHandlerWithoutCatch(threw, status) == IF threw THEN 0 ELSE status

\* asyncHandler + the global error handler: a rejection becomes a 500
asyncHandler(threw, status) == IF threw THEN 500 ELSE status

\* handleWebhook handling one delivery: the next stores and the record
handleWebhook(sig, type, dataObject, ext, redelivery) ==
    IF ~constructEvent(sig)
    THEN [companies |-> companies, transactions |-> transactions,
          last |-> [op |-> "handleWebhook", type |-> type, sig |-> sig, object |-> dataObject,
                    args |-> NoArgs, ext |-> ext, res |-> 400, trace |-> <<"constructEvent">>,
                    sync |-> NoSync, redelivery |-> redelivery, body |-> <<>>]]
    ELSE LET o == Switch(type, dataObject, ext)
         IN  [companies |-> o.companies, transactions |-> o.transactions,
              last |-> [op |-> "handleWebhook", type |-> type, sig |-> sig, object |-> dataObject,
                        args |-> NoArgs, ext |-> ext, res |-> asyncHandler(o.threw, 200),
                        trace |-> <<"constructEvent">> \o LogCall \o o.calls,
                        sync |-> o.sync, redelivery |-> redelivery, body |-> <<>>]]

----------------------------------------------------------------------------
(* Deliveries *)

UnhandledTypes == {"some.unhandled.type", "charge.refunded"}

\* the objects an event of each type carries
EventObjects(type) ==
    CASE type \in {"customer.subscription.created", "customer.subscription.updated"} ->
            {[NoObject EXCEPT !.id = s.id, !.customer = s.customer, !.status = s.status,
                              !.items = s.items, !.current_period_end = s.current_period_end]
                : s \in SubscriptionObjects}
      [] type = "customer.subscription.deleted" ->
            \* the processor reports a deleted subscription as canceled
            {[NoObject EXCEPT !.id = s.id, !.customer = s.customer, !.status = s.status,
                              !.items = s.items, !.current_period_end = s.current_period_end]
                : s \in {x \in SubscriptionObjects : /\ x.status = "canceled"
                                                      /\ x.current_period_end # 0}}
      [] type = "checkout.session.completed" ->
            {[NoObject EXCEPT !.id = "cs_1", !.mode = "subscription", !.subscription = s]
                : s \in SubscriptionIds \cup {NULL}}
            \cup {[NoObject EXCEPT !.id = "cs_1", !.mode = "payment", !.payment_intent = p]
                : p \in PaymentIntentRefs \cup {NULL}}
            \cup {[NoObject EXCEPT !.id = "cs_1", !.mode = "setup"]}
      [] type = "invoice.paid" ->
            {[NoObject EXCEPT !.id = "in_1", !.billing_reason = b, !.subscription = s]
                : b \in {"subscription_create", "subscription_cycle", "manual"},
                  s \in SubscriptionIds \cup {NULL}}
      [] type = "invoice.payment_failed" ->
            {[NoObject EXCEPT !.id = "in_1", !.billing_reason = "subscription_cycle",
                              !.subscription = s]
                : s \in SubscriptionIds \cup {NULL}}
      [] type \in {"payment_intent.succeeded", "payment_intent.payment_failed"} ->
            {[NoObject EXCEPT !.id = p] : p \in PaymentIntentRefs}
      [] OTHER -> {[NoObject EXCEPT !.id = "obj_1", !.customer = c] : c \in CustomerRefs}

\* whether the case reaches stripe.subscriptions.retrieve
Retrieves(type, dataObject) ==
    \/ type = "checkout.session.completed" /\ dataObject.mode = "subscription"
                                           /\ dataObject.subscription # NULL
    \/ type = "invoice.paid" /\ dataObject.billing_reason \in {"subscription_create", "subscription_cycle"}
    \/ type = "invoice.payment_failed" /\ dataObject.subscription # NULL

\* the outcomes stripe.subscriptions.retrieve(id) can have: it fails, or
\* returns the subscription with that id (the processor's own objects
\* carry a period end)
RetrieveChoices(type, dataObject) ==
    IF Retrieves(type, dataObject)
    THEN {[stripe |-> <<FALSE>>, subscription |-> NoSubscription]}
         \cup {[stripe |-> <<TRUE>>, subscription |-> sub] :
                   sub \in {x \in SubscriptionObjects : /\ x.id = dataObject.subscription
                                                        /\ x.current_period_end # 0}}
    ELSE {[stripe |-> <<>>, subscription |-> NoSubscription]}

\* the cases with an axios.post to NOTIFICATION_SERVICE_URL
NotifyingTypes ==
    {"customer.subscription.created", "customer.subscription.deleted", "invoice.payment_failed"}

\* the outcomes the external calls of a delivery can have; a call that is
\* not made has the neutral outcome
ExtChoices(type, dataObject) ==
    { [logOk |-> l, notifOk |-> n, dbOk |-> d, stripe |-> r.stripe,
       subscription |-> r.subscription, now |-> t, errorType |-> NULL, keyOk |-> TRUE,
       updateOk |-> TRUE] :
        l \in (IF env.logging THEN BOOLEAN ELSE {TRUE}),
        n \in (IF env.notification /\ type \in NotifyingTypes THEN BOOLEAN ELSE {TRUE}),
        d \in (IF type \in HandledTypes THEN BOOLEAN ELSE {TRUE}),
        r \in RetrieveChoices(type, dataObject),
        t \in (IF type = "customer.subscription.deleted" THEN Times ELSE {0}) }

Idle == last.op = "none"

Handle(sig, type, dataObject, ext, redelivery) ==
    LET r == handleWebhook(sig, type, dataObject, ext, redelivery)
    IN  /\ companies' = r.companies
        /\ transactions' = r.transactions
        /\ last' = r.last
        /\ UNCHANGED <<env, applied, running>>

\* the cases that write the PaymentTransaction store
TouchesTransactions(type, dataObject) ==
    \/ type \in {"payment_intent.succeeded", "payment_intent.payment_failed"}
    \/ type = "checkout.session.completed" /\ dataObject.mode = "payment"

\* a verified delivery of a payment event
DeliverPaymentEvent ==
    /\ Idle
    /\ \E type \in HandledTypes :
       \E dataObject \in EventObjects(type) :
       \E ext \in ExtChoices(type, dataObject) :
            /\ TouchesTransactions(type, dataObject)
            /\ Handle("valid", type, dataObject, ext, FALSE)

\* a verified delivery of a subscription, checkout or invoice event
DeliverSubscriptionEvent ==
    /\ Idle
    /\ \E type \in HandledTypes :
       \E dataObject \in EventObjects(type) :
       \E ext \in ExtChoices(type, dataObject) :
            /\ ~TouchesTransactions(type, dataObject)
            /\ Handle("valid", type, dataObject, ext, FALSE)

\* a verified delivery of an event type the switch has no case for
DeliverUnhandledEvent ==
    /\ Idle
    /\ \E type \in UnhandledTypes :
       \E dataObject \in EventObjects(type) :
       \E ext \in ExtChoices(type, dataObject) :
            Handle("valid", type, dataObject, ext, FALSE)

\* a delivery whose header is missing, does not match the body or is stale;
\* the body is never parsed
DeliverUnverified ==
    /\ Idle
    /\ \E sig \in Signatures \ {"valid"} :
       \E type \in {"payment_intent.succeeded", "customer.subscription.updated", "some.unhandled.type"} :
       \E dataObject \in {o \in EventObjects(type) : o.status \in {NULL, "active"}
                                                      /\ o.current_period_end = 0} :
            Handle(sig, type, dataObject, NoExt, FALSE)

\* the processor delivers an acknowledged event again (at-least-once
\* transport); a re-fetch returns the same subscription as before or fails.
\* An event that was not acknowledged is sent again as a new delivery.
Redeliver ==
    /\ last.op = "handleWebhook"
    /\ last.res = 200
    /\ \E ext \in ExtChoices(last.type, last.object) :
        /\ ext.subscription \in {NoSubscription, last.ext.subscription}
        /\ Handle(last.sig, last.type, last.object,
                  IF last.sig = "valid" THEN ext ELSE NoExt, TRUE)

\* the response has been sent and the server waits for the next request
Finish ==
    /\ ~Idle
    /\ last' = NoRequest
    /\ UNCHANGED <<env, applied, running, companies, transactions>>

----------------------------------------------------------------------------
(* API operations *)

\* the record of an API request
ApiRecord(op, args, ext, res, trace) ==
    [op |-> op, type |-> NULL, sig |-> NULL, object |-> NoObject, args |-> args,
     ext |-> ext, res |-> res, trace |-> trace, sync |-> NoSync, redelivery |-> FALSE,
     body |-> <<>>]

\* a validation that only checks that a value is present
PresentInternalStatus(internalStatus) == internalStatus # NULL

\* line 240: the value is present and in the allowed list
ValidInternalStatus(internalStatus) ==
    internalStatus # NULL /\ internalStatus \in allowedInternalStatuses

\* updateTransactionInternalStatus: validate, load, set, merge the note, save
updateTransactionInternalStatus(transactionId, internalStatus, notes, dbOk) ==
    IF ~ValidInternalStatus(internalStatus)
    THEN [transactions |-> transactions, res |-> 400, trace |-> <<>>]
    ELSE IF ~dbOk
    THEN [transactions |-> transactions, res |-> asyncHandler(TRUE, 200),
          trace |-> <<"PaymentTransaction.findByPk">>]
    ELSE IF transactionId \notin DOMAIN transactions
    THEN [transactions |-> transactions, res |-> 404, trace |-> <<"PaymentTransaction.findByPk">>]
    ELSE LET row == transactions[transactionId]
             set == [row EXCEPT !.internalStatus = internalStatus,
                                !.metadata = IF notes # NULL
                                             THEN Spread(row.metadata, "internalNotes", notes)
                                             ELSE row.metadata]
             saved == EnumAccepts(set.status, set.internalStatus)
         IN  [transactions |-> IF saved THEN [transactions EXCEPT ![transactionId] = set]
                               ELSE transactions,
              res |-> asyncHandler(~saved, 200),
              trace |-> <<"PaymentTransaction.findByPk", "transaction.save">>]

\* the internalStatus values a request body carries: the allowed ones that
\* the model uses, a value of the column ENUM that is not allowed, an
\* unknown one, and none
RequestedInternalStatuses == {"approved", "declined", "rejected", "bogus", NULL}

UpdateTransactionInternalStatus ==
    /\ Idle
    /\ \E transactionId \in {"t1", "t2", "t9"}, internalStatus \in RequestedInternalStatuses,
          notes \in {NULL, "note"}, dbOk \in BOOLEAN :
        LET r == updateTransactionInternalStatus(transactionId, internalStatus, notes, dbOk)
        IN  /\ transactions' = r.transactions
            /\ last' = ApiRecord("updateTransactionInternalStatus",
                            [NoArgs EXCEPT !.id = transactionId, !.internalStatus = internalStatus,
                                           !.notes = notes],
                            [NoExt EXCEPT !.dbOk = dbOk], r.res, r.trace)
            /\ UNCHANGED <<env, applied, running, companies>>

\* new Date().toISOString(): the instant as text
\* getTransactionById: line 278 reads transactionId, which the function
\* never declares (req.params is not destructured); the read throws a
\* ReferenceError before any store call, and asyncHandler hands the
\* rejection to the global error handler
getTransactionById(transactionId) ==
    [transactions |-> transactions, res |-> asyncHandler(TRUE, 200), trace |-> <<>>]

GetTransactionById ==
    /\ Idle
    /\ \E transactionId \in {"t1", "t2", "t9"} :
        LET r == getTransactionById(transactionId)
        IN  /\ transactions' = r.transactions
            /\ last' = ApiRecord("getTransactionById", [NoArgs EXCEPT !.id = transactionId],
                                 NoExt, r.res, r.trace)
            /\ UNCHANGED <<env, applied, running, companies>>

toISOString(ms) == <<"iso", ms>>

\* transaction.update({status, internalStatus, metadata}) of cancelSubscription
CanceledTransaction(row, now) ==
    [row EXCEPT !.status = "canceled", !.internalStatus = "canceled_by_user",
                !.metadata = Spread(row.metadata, "cancellationTimestamp", toISOString(now))]

\* PaymentTransaction.findOne({ where: { stripeSubscriptionId } })
FindTransactionBySubscription(txs, subscriptionId) ==
    {t \in DOMAIN txs : txs[t].stripeSubscriptionId = subscriptionId}

\* cancelSubscription: cancel at the processor, then mark the local row;
\* both sit in one try block whose catch answers 404 for a
\* StripeInvalidRequestError and 500 for every other error
cancelSubscription(subscriptionId, ext) ==
    IF subscriptionId = NULL
    THEN [transactions |-> transactions, res |-> 400, trace |-> <<>>]
    ELSE IF ~ext.stripe[1]
    THEN [transactions |-> transactions,
          res |-> IF ext.errorType = "StripeInvalidRequestError" THEN 404 ELSE 500,
          trace |-> <<"subscriptions.del">>]
    ELSE IF ~ext.dbOk
    THEN [transactions |-> transactions, res |-> 500,
          trace |-> <<"subscriptions.del", "PaymentTransaction.findOne">>]
    ELSE LET found == FindTransactionBySubscription(transactions, subscriptionId)
         IN  IF found = {}
             THEN [transactions |-> transactions, res |-> 200,
                   trace |-> <<"subscriptions.del", "PaymentTransaction.findOne">>]
             ELSE LET t == CHOOSE t \in found : TRUE
                      set == CanceledTransaction(transactions[t], ext.now)
                      saved == EnumAccepts(set.status, set.internalStatus)
                  IN  [transactions |-> IF saved THEN [transactions EXCEPT ![t] = set]
                                        ELSE transactions,
                       res |-> IF saved THEN 200 ELSE 500,
                       trace |-> <<"subscriptions.del", "PaymentTransaction.findOne",
                                   "transaction.update">>]

\* the outcomes of the external calls of a cancellation
CancelChoices ==
    { [NoExt EXCEPT !.stripe = <<FALSE>>, !.errorType = e] :
          e \in {"StripeInvalidRequestError", "StripeAPIError"} }
    \cup { [NoExt EXCEPT !.stripe = <<TRUE>>, !.dbOk = d, !.now = t] :
               d \in BOOLEAN, t \in Times }

CancelSubscription ==
    /\ Idle
    /\ \E subscriptionId \in SubscriptionIds \cup {"sub_9"}, ext \in CancelChoices :
        LET r == cancelSubscription(subscriptionId, ext)
        IN  /\ transactions' = r.transactions
            /\ last' = ApiRecord("cancelSubscription", [NoArgs EXCEPT !.id = subscriptionId],
                                 ext, r.res, r.trace)
            /\ UNCHANGED <<env, applied, running, companies>>

\* const companyId = '1' (line 42): the company the literal names.  The
\* key column is a UUID; where the store takes the literal for a key it
\* names the company of the initial state, and where it does not the
\* lookup is rejected.
hardcodedCompanyId == "c1"

\* the row and the intent createPaymentIntent creates
CreatedTransactionId == "t3"
CreatedPaymentIntentId == "pi_3"

\* createPaymentIntent: look the company up (outside the try block), then
\* create the processor intent and the local row (inside it)
createPaymentIntent(ext) ==
    IF ~ext.dbOk \/ ~ext.keyOk
    THEN [transactions |-> transactions, res |-> asyncHandler(TRUE, 201),
          trace |-> <<"Company.findByPk">>]
    ELSE IF hardcodedCompanyId \notin DOMAIN companies \/ companies[hardcodedCompanyId].stripeAccountId = NULL
    THEN [transactions |-> transactions, res |-> 404, trace |-> <<"Company.findByPk">>]
    ELSE IF ~ext.stripe[1]
    THEN [transactions |-> transactions, res |-> 500,
          trace |-> <<"Company.findByPk", "paymentIntents.create">>]
    ELSE IF ~ext.stripe[2]
    THEN [transactions |-> transactions, res |-> 500,
          trace |-> <<"Company.findByPk", "paymentIntents.create", "PaymentTransaction.create">>]
    ELSE [transactions |->
              [t \in DOMAIN transactions \cup {CreatedTransactionId} |->
                  IF t = CreatedTransactionId
                  THEN NewTransaction(CreatedPaymentIntentId, NULL)
                  ELSE transactions[t]],
          res |-> 201,
          trace |-> <<"Company.findByPk", "paymentIntents.create", "PaymentTransaction.create">>]

\* the outcomes of the calls of createPaymentIntent: the lookup fails, or
\* the processor call fails, or the row insert fails, or all succeed
CreateChoices ==
    { [NoExt EXCEPT !.dbOk = FALSE], [NoExt EXCEPT !.keyOk = FALSE],
      [NoExt EXCEPT !.stripe = <<FALSE, FALSE>>], [NoExt EXCEPT !.stripe = <<TRUE, FALSE>>],
      [NoExt EXCEPT !.stripe = <<TRUE, TRUE>>] }

\* the bodies a client sends: companyId, amount, currency and customerId
\* all present (naming the stored company or another one), or one missing;
\* of the body the handler reads only description and metadata
CreateBodies ==
    { [NoArgs EXCEPT !.id = "c1"], [NoArgs EXCEPT !.id = "c2"], [NoArgs EXCEPT !.complete = FALSE] }

\* one payment intent is created in a run of the model
CreatePaymentIntent ==
    /\ Idle
    /\ CreatedTransactionId \notin DOMAIN transactions
    /\ \E ext \in CreateChoices, body \in CreateBodies :
        LET r == createPaymentIntent(ext)
        IN  /\ transactions' = r.transactions
            /\ last' = ApiRecord("createPaymentIntent", body, ext, r.res, r.trace)
            /\ UNCHANGED <<env, applied, running, companies>>

\* createCompany: 400 without name and email, 409 on a duplicate name or
\* email, otherwise a new row under a fresh id (a UUID: the id of the
\* company of the initial state is never given out again)
CreateCompany ==
    /\ Idle
    /\ \E complete \in BOOLEAN, duplicate \in BOOLEAN :
        LET args == [NoArgs EXCEPT !.complete = complete]
        IN  IF ~complete
            THEN /\ last' = ApiRecord("createCompany", args, NoExt, 400, <<>>)
                 /\ UNCHANGED <<env, applied, running, companies, transactions>>
            ELSE IF duplicate
            THEN /\ DOMAIN companies # {}
                 /\ last' = ApiRecord("createCompany", args, NoExt, 409, <<"Company.create">>)
                 /\ UNCHANGED <<env, applied, running, companies, transactions>>
            ELSE \E c \in CompanyIds \ (DOMAIN companies \cup {"c1"}) :
                 /\ companies' = [d \in DOMAIN companies \cup {c} |->
                                     IF d = c THEN NewCompany ELSE companies[d]]
                 /\ last' = ApiRecord("createCompany", [args EXCEPT !.id = c], NoExt, 201,
                                      <<"Company.create">>)
                 /\ UNCHANGED <<env, applied, running, transactions>>

\* updateCompany: Company.update({name, email, address, phone, stripeAccountId})
\* where id; stripeAccountId is left alone when the body omits it and is
\* unique among the companies
updateCompany(id, stripeAccountId) ==
    IF id \notin DOMAIN companies
    THEN [companies |-> companies, res |-> 404, trace |-> <<"Company.update">>]
    ELSE IF stripeAccountId # NULL
            /\ \E d \in DOMAIN companies : d # id /\ companies[d].stripeAccountId = stripeAccountId
    THEN [companies |-> companies, res |-> asyncHandler(TRUE, 200), trace |-> <<"Company.update">>]
    ELSE [companies |-> IF stripeAccountId # NULL
                        THEN [companies EXCEPT ![id].stripeAccountId = stripeAccountId]
                        ELSE companies,
          res |-> 200, trace |-> <<"Company.update", "Company.findByPk">>]

\* PUT /companies/:id with a body that leaves stripeAccountId out
UpdateCompany ==
    /\ Idle
    /\ \E id \in CompanyIds :
        LET r == updateCompany(id, NULL)
        IN  /\ companies' = r.companies
            /\ last' = ApiRecord("updateCompany", [NoArgs EXCEPT !.id = id], NoExt, r.res, r.trace)
            /\ UNCHANGED <<env, applied, running, transactions>>

\* PUT /companies/:id with a body that carries a connected-account id
UpdateCompanyStripeAccount ==
    /\ Idle
    /\ \E id \in CompanyIds, stripeAccountId \in {"acct_1"} :
        LET r == updateCompany(id, stripeAccountId)
        IN  /\ companies' = r.companies
            /\ last' = ApiRecord("updateCompany",
                            [NoArgs EXCEPT !.id = id, !.stripeAccountId = stripeAccountId],
                            NoExt, r.res, r.trace)
            /\ UNCHANGED <<env, applied, running, transactions>>

\* deleteCompany: Company.destroy where id.  The foreign key of
\* payment_transactions.companyId either rejects the delete of a company
\* that has transactions or cascades to them, as the schema was created.
DeleteCompany ==
    /\ Idle
    /\ \E id \in CompanyIds, onDelete \in {"CASCADE", "RESTRICT"} :
        LET args == [NoArgs EXCEPT !.id = id]
            owned == {t \in DOMAIN transactions : transactions[t].companyId = id}
        IN  IF id \notin DOMAIN companies
            THEN /\ onDelete = "RESTRICT"
                 /\ last' = ApiRecord("deleteCompany", args, NoExt, 404, <<"Company.destroy">>)
                 /\ UNCHANGED <<env, applied, running, companies, transactions>>
            ELSE IF owned # {} /\ onDelete = "RESTRICT"
            THEN /\ last' = ApiRecord("deleteCompany", args, NoExt, asyncHandler(TRUE, 200),
                                      <<"Company.destroy">>)
                 /\ UNCHANGED <<env, applied, running, companies, transactions>>
            ELSE /\ owned = {} => onDelete = "RESTRICT"
                 /\ companies' = [d \in DOMAIN companies \ {id} |-> companies[d]]
                 /\ transactions' = [t \in DOMAIN transactions \ owned |-> transactions[t]]
                 /\ last' = ApiRecord("deleteCompany", args, NoExt, 200, <<"Company.destroy">>)
                 /\ UNCHANGED <<env, applied, running>>

\* createSubscriptionCheckoutSession: creates the processor customer of a
\* company that has none and stores its id, then creates the session
createSubscriptionCheckoutSession(companyId, priceId, stripe) ==
    IF companyId = NULL \/ priceId = NULL
    THEN [companies |-> companies, res |-> 400, trace |-> <<>>]
    ELSE IF companyId \notin DOMAIN companies
    THEN [companies |-> companies, res |-> 404, trace |-> <<"Company.findByPk">>]
    ELSE IF companies[companyId].stripeCustomerId = NULL
    THEN IF ~stripe[1]
         THEN [companies |-> companies, res |-> 500,
               trace |-> <<"Company.findByPk", "customers.create">>]
         ELSE [companies |-> [companies EXCEPT ![companyId].stripeCustomerId = CustomerIdFor[companyId]],
               res |-> IF stripe[2] THEN 200 ELSE 500,
               trace |-> <<"Company.findByPk", "customers.create", "company.save",
                           "checkout.sessions.create">>]
    ELSE [companies |-> companies, res |-> IF stripe[1] THEN 200 ELSE 500,
          trace |-> <<"Company.findByPk", "checkout.sessions.create">>]

\* the outcomes of the processor calls the request makes
CheckoutStripeChoices(companyId, priceId) ==
    IF companyId = NULL \/ priceId = NULL \/ companyId \notin DOMAIN companies
    THEN {<<>>}
    ELSE IF companies[companyId].stripeCustomerId = NULL
    THEN {<<FALSE>>, <<TRUE, FALSE>>, <<TRUE, TRUE>>}
    ELSE {<<FALSE>>, <<TRUE>>}

CreateSubscriptionCheckoutSession ==
    /\ Idle
    /\ \E companyId \in {"c1", NULL}, priceId \in {"price_basic", NULL} :
       \E stripe \in CheckoutStripeChoices(companyId, priceId) :
        LET r == createSubscriptionCheckoutSession(companyId, priceId, stripe)
        IN  /\ companies' = r.companies
            /\ last' = ApiRecord("createSubscriptionCheckoutSession",
                            [NoArgs EXCEPT !.id = companyId, !.priceId = priceId],
                            [NoExt EXCEPT !.stripe = stripe], r.res, r.trace)
            /\ UNCHANGED <<env, applied, running, transactions>>

----------------------------------------------------------------------------
(* Duplicates of applied payment events *)

\* an event as the processor keeps it for a later delivery
EventOf(type, dataObject) == [type |-> type, object |-> dataObject]

\* whether a payment event selects a stored row
MatchesRow(type, dataObject) ==
    \E t \in DOMAIN transactions :
        transactions[t].stripePaymentIntentId =
            (IF type = "checkout.session.completed" THEN dataObject.payment_intent ELSE dataObject.id)

\* a verified delivery of a payment event; an event that was acknowledged
\* after it selected a row is remembered as applied
DeliverAndRemember ==
    /\ Idle
    /\ \E type \in HandledTypes :
       \E dataObject \in EventObjects(type) :
       \E ext \in ExtChoices(type, dataObject) :
        LET r == handleWebhook("valid", type, dataObject, ext, FALSE)
        IN  /\ TouchesTransactions(type, dataObject)
            /\ companies' = r.companies
            /\ transactions' = r.transactions
            /\ last' = r.last
            /\ applied' = IF r.last.res = 200 /\ MatchesRow(type, dataObject)
                           THEN applied \cup {EventOf(type, dataObject)}
                           ELSE applied
            /\ UNCHANGED <<env, running>>

\* the processor delivers an applied event once more, at any later time
DeliverDuplicate ==
    /\ Idle
    /\ \E e \in applied :
       \E ext \in ExtChoices(e.type, e.object) :
        LET r == handleWebhook("valid", e.type, e.object, ext, TRUE)
        IN  /\ companies' = r.companies
            /\ transactions' = r.transactions
            /\ last' = r.last
            /\ UNCHANGED <<env, applied, running>>

----------------------------------------------------------------------------
(* createPaymentIntent followed call by call, and the event of its intent *)

\* createPaymentIntent awaiting PaymentTransaction.create after
\* stripe.paymentIntents.create returned; `outbox` is the processor's
\* payment_intent.succeeded event of the intent: not sent yet ("none"),
\* sent and not acknowledged with 200 ("pending"), or acknowledged
AwaitingInsert ==
    [pc |-> "PaymentTransaction.create", intent |-> CreatedPaymentIntentId, outbox |-> "none"]

\* lines 54-76: the company lookup and the processor call
RaceBegin ==
    /\ running = <<>>
    /\ CreatedTransactionId \notin DOMAIN transactions
    /\ \E ext \in CreateChoices \ {[NoExt EXCEPT !.stripe = <<TRUE, FALSE>>]} :
        LET r == createPaymentIntent(ext)
        IN  IF r.res = 201
            THEN /\ running' = <<AwaitingInsert>>
                 /\ UNCHANGED <<env, companies, transactions, last, applied>>
            ELSE /\ last' = ApiRecord("createPaymentIntent", NoArgs, ext, r.res, r.trace)
                 /\ UNCHANGED <<env, companies, transactions, applied, running>>

\* lines 79-100: the row insert and the response
RaceCommit ==
    /\ running # <<>>
    /\ running[1].pc = "PaymentTransaction.create"
    /\ \E inserted \in BOOLEAN :
        LET ext == [NoExt EXCEPT !.stripe = <<TRUE, inserted>>]
            r == createPaymentIntent(ext)
        IN  /\ transactions' = r.transactions
            /\ last' = ApiRecord("createPaymentIntent", NoArgs, ext, r.res, r.trace)
            /\ running' = <<[running[1] EXCEPT !.pc = IF inserted THEN "done" ELSE "failed"]>>
            /\ UNCHANGED <<env, companies, applied>>

\* the customer confirms the payment: the processor queues the
\* payment_intent.succeeded event of the intent
RacePay ==
    /\ running # <<>>
    /\ running[1].outbox = "none"
    /\ running' = <<[running[1] EXCEPT !.outbox = "pending"]>>
    /\ UNCHANGED <<env, companies, transactions, last, applied>>

\* the processor delivers the queued event, and keeps it queued unless the
\* delivery is acknowledged with 200
RaceDeliverWith(dbOk) ==
    /\ running # <<>>
    /\ running[1].outbox = "pending"
    /\ \E ext \in ExtChoices("payment_intent.succeeded", [NoObject EXCEPT !.id = running[1].intent]) :
        LET r == handleWebhook("valid", "payment_intent.succeeded",
                               [NoObject EXCEPT !.id = running[1].intent], ext, FALSE)
        IN  /\ ext.dbOk = dbOk
            /\ companies' = r.companies
            /\ transactions' = r.transactions
            /\ last' = r.last
            /\ running' = <<[running[1] EXCEPT
                                 !.outbox = IF r.last.res = 200 THEN "acknowledged" ELSE "pending"]>>
            /\ UNCHANGED <<env, applied>>

RaceDeliver == RaceDeliverWith(TRUE)

RaceDeliverStoreDown == RaceDeliverWith(FALSE)

----------------------------------------------------------------------------
(* Checkout sessions *)

\* a verified delivery of checkout.session.completed, in any mode
DeliverCheckoutSession ==
    /\ Idle
    /\ \E dataObject \in EventObjects("checkout.session.completed") :
       \E ext \in ExtChoices("checkout.session.completed", dataObject) :
            Handle("valid", "checkout.session.completed", dataObject, ext, FALSE)

----------------------------------------------------------------------------
(* Subscription events of one customer, in any order *)

\* the subscription events that name the customer of the stored company
CustomerSubscriptionEvents ==
    {EventOf("customer.subscription.updated", o) :
        o \in {x \in EventObjects("customer.subscription.updated") :
                   x.customer = "cus_1" /\ x.current_period_end # 0}}
    \cup {EventOf("customer.subscription.deleted", o) :
        o \in {x \in EventObjects("customer.subscription.deleted") : x.customer = "cus_1"}}

\* a verified delivery of a subscription event; the store answers every
\* call, none, or findOne only.  The customer.subscription.deleted events
\* whose row update was committed are remembered: the processor sends
\* events in no particular order, so an event created before the deletion
\* can still arrive.
DeliverSubscriptionChange ==
    /\ Idle
    /\ \E e \in CustomerSubscriptionEvents :
       \E choice \in ExtChoices(e.type, e.object), updateOk \in BOOLEAN :
        LET ext == [choice EXCEPT !.updateOk = updateOk]
            r == handleWebhook("valid", e.type, e.object, ext, FALSE)
        IN  /\ ext.dbOk \/ updateOk
            /\ companies' = r.companies
            /\ transactions' = r.transactions
            /\ last' = r.last
            /\ applied' = IF e.type = "customer.subscription.deleted" /\ r.last.sync.committed
                          THEN applied \cup {e}
                          ELSE applied
    /\ UNCHANGED <<env, running>>

----------------------------------------------------------------------------
(* Two deliveries handled at once, followed store call by store call *)

\* the events delivered two at a time: they name the stored customer, the
\* stored subscription and a stored payment intent
InterleavedEvents ==
    {EventOf("customer.subscription.updated", o) :
        o \in {x \in EventObjects("customer.subscription.updated") :
                   /\ x.customer = "cus_1" /\ x.current_period_end # 0
                   /\ x.status \in {"active", "canceled"}
                   /\ x.items \in {<<"price_basic">>, <<"price_premium">>}}}
    \cup {EventOf("customer.subscription.deleted", o) :
        o \in {x \in EventObjects("customer.subscription.deleted") :
                   x.customer = "cus_1" /\ x.items = <<>>}}
    \cup {EventOf(type, [NoObject EXCEPT !.id = "pi_1"]) :
        type \in {"payment_intent.succeeded", "payment_intent.payment_failed"}}
    \cup {EventOf("checkout.session.completed",
                  [NoObject EXCEPT !.id = "cs_1", !.mode = "payment", !.payment_intent = "pi_1"])}

\* the first store call of a delivery
FirstStoreCall(type) ==
    IF type \in {"customer.subscription.updated", "customer.subscription.deleted"}
    THEN "Company.findOne"
    ELSE "PaymentTransaction.update"

\* a delivery in progress: its event, the clock it reads, the store call
\* it is about to make, the Company instance findOne gave it, and the
\* stores as they were when the two deliveries arrived
StartedDelivery(e, now, base) ==
    [type |-> e.type, object |-> e.object,
     now |-> IF e.type = "customer.subscription.deleted" THEN now ELSE 0,
     pc |-> FirstStoreCall(e.type),
     read |-> [key |-> NULL, row |-> NewCompany],
     base |-> base]

\* the payload Subscription Sync is called with
SyncPayload(d) ==
    IF d.type = "customer.subscription.deleted" THEN DeletedPayload(d.object, d.now) ELSE d.object

\* the values the payment cases write
WrittenStatus(type) == IF type = "payment_intent.payment_failed" THEN "failed" ELSE "succeeded"
WrittenInternalStatus(type) ==
    IF type = "payment_intent.payment_failed" THEN "declined" ELSE "awaiting_approval"
SelectedPaymentIntent(d) ==
    IF d.type = "checkout.session.completed" THEN d.object.payment_intent ELSE d.object.id

\* two deliveries arrive while no request is in progress
StartPair ==
    /\ Idle
    /\ running = <<>>
    /\ \E e1 \in InterleavedEvents, e2 \in InterleavedEvents, t1 \in Times, t2 \in Times :
        LET base == [companies |-> companies, transactions |-> transactions]
        IN  running' = <<StartedDelivery(e1, t1, base), StartedDelivery(e2, t2, base)>>
    /\ UNCHANGED <<env, companies, transactions, last, applied>>

\* CompanyModel.findOne: the delivery gets the row as it is now
StepFindOne(i) ==
    /\ running[i].pc = "Company.findOne"
    /\ LET found == FindCompanyByCustomer(companies, running[i].object.customer)
       IN  IF found = {}
           THEN running' = [running EXCEPT ![i].pc = "done"]
           ELSE LET c == CHOOSE c \in found : TRUE
                IN  running' = [running EXCEPT ![i].pc = "company.update",
                                               ![i].read = [key |-> c, row |-> companies[c]]]
    /\ UNCHANGED <<env, companies, transactions, last, applied>>

\* an UPDATE that carries only the fields whose value differs from the
\* instance as it was read
SavedChangedFieldsOnly(current, readRow, data) ==
    LET new == SyncedCompany(readRow, data)
    IN  [f \in DOMAIN current |-> IF new[f] # readRow[f] THEN new[f] ELSE current[f]]

\* company.update({...}): the row after the UPDATE of an instance read as
\* readRow; the four fields passed to update are all in the statement
SavedCompany(current, readRow, data) == SyncedCompany(current, data)

\* company.update: the instance sets the four fields and saves; a save
\* of an instance on which nothing changed issues no query, otherwise the
\* four fields are written to the row of the instance's key
StepCompanyUpdate(i) ==
    /\ running[i].pc = "company.update"
    /\ LET d == running[i]
           c == d.read.key
           data == SyncPayload(d)
           changed == SyncedCompany(d.read.row, data) # d.read.row
       IN  companies' = IF /\ changed
                           /\ c \in DOMAIN companies
                           /\ SubscriptionIdFree(companies, c, data.id)
                        THEN [companies EXCEPT ![c] = SavedCompany(companies[c], d.read.row, data)]
                        ELSE companies
    /\ running' = [running EXCEPT ![i].pc = "done"]
    /\ UNCHANGED <<env, transactions, last, applied>>

\* PaymentTransaction.update: one UPDATE statement
StepTransactionUpdate(i) ==
    /\ running[i].pc = "PaymentTransaction.update"
    /\ LET d == running[i]
       IN  transactions' =
              IF EnumAccepts(WrittenStatus(d.type), WrittenInternalStatus(d.type))
              THEN UpdateByPaymentIntent(transactions, WrittenStatus(d.type),
                                         WrittenInternalStatus(d.type), SelectedPaymentIntent(d))
              ELSE transactions
    /\ running' = [running EXCEPT ![i].pc = "done"]
    /\ UNCHANGED <<env, companies, last, applied>>

\* one of the two deliveries makes its next store call
StepDelivery ==
    /\ Len(running) = 2
    /\ \E i \in 1..2 : StepFindOne(i) \/ StepCompanyUpdate(i) \/ StepTransactionUpdate(i)

\* both deliveries have answered
EndPair ==
    /\ Len(running) = 2
    /\ \A i \in 1..2 : running[i].pc = "done"
    /\ running' = <<>>
    /\ UNCHANGED <<env, companies, transactions, last, applied>>

\* API requests and the end of a request, while no delivery is in progress
QuietCreateSubscriptionCheckoutSession == running = <<>> /\ CreateSubscriptionCheckoutSession

QuietFinish == running = <<>> /\ Finish

----------------------------------------------------------------------------
(* Concurrent createSubscriptionCheckoutSession requests *)

\* the ids the processor gives to the customers it creates, in the order
\* of the customers.create calls
ProcessorCustomerIds == <<CustomerIdFor["c1"], "cus_3">>

\* a createSubscriptionCheckoutSession request in progress: its body, the
\* call it is about to make, its local stripeCustomerId, the customer it
\* had the processor create, the customer of the session it created, its
\* response, and the Company store as it was when the two requests arrived
StartedCheckout(companyId, priceId, base) ==
    [op |-> "createSubscriptionCheckoutSession",
     companyId |-> companyId, priceId |-> priceId,
     pc |-> IF companyId = NULL \/ priceId = NULL THEN "done" ELSE "Company.findByPk",
     stripeCustomerId |-> NULL, created |-> NULL, session |-> NULL,
     res |-> IF companyId = NULL \/ priceId = NULL THEN 400 ELSE 0,
     base |-> base]

\* two requests arrive while no request is in progress
StartCheckoutPair ==
    /\ Idle
    /\ running = <<>>
    /\ \E c1 \in {"c1", "c9"}, c2 \in {"c1", "c9"}, p \in {"price_basic", NULL} :
        running' = <<StartedCheckout(c1, "price_basic", companies),
                     StartedCheckout(c2, p, companies)>>
    /\ UNCHANGED <<env, companies, transactions, last, applied>>

\* Company.findByPk and the read of company.stripeCustomerId
CheckoutFindByPk(i) ==
    /\ running[i].pc = "Company.findByPk"
    /\ LET c == running[i].companyId
       IN  IF c \notin DOMAIN companies
           THEN running' = [running EXCEPT ![i].pc = "done", ![i].res = 404]
           ELSE running' = [running EXCEPT
                    ![i].stripeCustomerId = companies[c].stripeCustomerId,
                    ![i].pc = IF companies[c].stripeCustomerId = NULL
                              THEN "customers.create" ELSE "checkout.sessions.create"]
    /\ UNCHANGED <<env, companies, transactions, last, applied>>

\* stripe.customers.create: the processor creates one more customer
CheckoutCustomersCreate(i) ==
    /\ running[i].pc = "customers.create"
    /\ \E ok \in BOOLEAN :
        LET n == Cardinality({j \in DOMAIN running : running[j].created # NULL})
        IN  running' = IF ok
                       THEN [running EXCEPT ![i].created = ProcessorCustomerIds[n + 1],
                                            ![i].stripeCustomerId = ProcessorCustomerIds[n + 1],
                                            ![i].pc = "company.save"]
                       ELSE [running EXCEPT ![i].pc = "done", ![i].res = 500]
    /\ UNCHANGED <<env, companies, transactions, last, applied>>

\* company.save: the changed stripeCustomerId is written to the row
CheckoutCompanySave(i) ==
    /\ running[i].pc = "company.save"
    /\ \E ok \in BOOLEAN :
        IF ok
        THEN /\ companies' = [companies EXCEPT ![running[i].companyId].stripeCustomerId =
                                                  running[i].stripeCustomerId]
             /\ running' = [running EXCEPT ![i].pc = "checkout.sessions.create"]
        ELSE /\ companies' = companies
             /\ running' = [running EXCEPT ![i].pc = "done", ![i].res = 500]
    /\ UNCHANGED <<env, transactions, last, applied>>

\* stripe.checkout.sessions.create for the local stripeCustomerId
CheckoutSessionsCreate(i) ==
    /\ running[i].pc = "checkout.sessions.create"
    /\ \E ok \in BOOLEAN :
        running' = IF ok
                   THEN [running EXCEPT ![i].session = running[i].stripeCustomerId,
                                        ![i].pc = "done", ![i].res = 200]
                   ELSE [running EXCEPT ![i].pc = "done", ![i].res = 500]
    /\ UNCHANGED <<env, companies, transactions, last, applied>>

\* one of the two requests makes its next call
StepCheckout ==
    /\ Len(running) = 2
    /\ \E i \in 1..2 :
        \/ CheckoutFindByPk(i)
        \/ CheckoutCustomersCreate(i)
        \/ CheckoutCompanySave(i)
        \/ CheckoutSessionsCreate(i)

\* both requests have answered
EndCheckoutPair ==
    /\ Len(running) = 2
    /\ \A i \in 1..2 : running[i].pc = "done"
    /\ running' = <<>>
    /\ UNCHANGED <<env, companies, transactions, last, applied>>

----------------------------------------------------------------------------
(* Requests through the gateway middleware *)

\* the x-user-id, x-company-id and x-user-role headers of a request: none,
\* an admin, a user of company c1, a user of company c2
GatewayHeaders ==
    { [userId |-> NULL, userCompanyId |-> NULL, userRole |-> NULL],
      [userId |-> "u0", userCompanyId |-> "c1", userRole |-> "admin"],
      [userId |-> "u1", userCompanyId |-> "c1", userRole |-> "user"],
      [userId |-> "u2", userCompanyId |-> "c2", userRole |-> "user"] }

\* parseGatewayHeaders: the request goes on only with the three headers
parseGatewayHeaders(headers) ==
    headers.userId # NULL /\ headers.userCompanyId # NULL /\ headers.userRole # NULL

\* authorizeCompanyAccess: an admin, or a user of the requested company
authorizeCompanyAccess(headers, requestedCompanyId) ==
    \/ headers.userRole = "admin"
    \/ headers.userCompanyId # NULL /\ headers.userCompanyId = requestedCompanyId

WithHeaders(args, headers) ==
    [args EXCEPT !.userId = headers.userId, !.userCompanyId = headers.userCompanyId,
                 !.userRole = headers.userRole]

\* PUT /transactions/:transactionId/internal-status: parseGatewayHeaders,
\* then the handler
PutInternalStatus ==
    /\ Idle
    /\ \E headers \in GatewayHeaders, transactionId \in {"t1", "t9"},
          internalStatus \in {"approved", "fulfilled", "bogus"} :
        LET args == WithHeaders([NoArgs EXCEPT !.id = transactionId,
                                               !.internalStatus = internalStatus], headers)
            r == updateTransactionInternalStatus(transactionId, internalStatus, NULL, TRUE)
        IN  IF ~parseGatewayHeaders(headers)
            THEN /\ last' = ApiRecord("updateTransactionInternalStatus", args, NoExt, 401, <<>>)
                 /\ UNCHANGED transactions
            ELSE /\ last' = ApiRecord("updateTransactionInternalStatus", args, NoExt, r.res, r.trace)
                 /\ transactions' = r.transactions
    /\ UNCHANGED <<env, applied, running, companies>>

\* the instant a row was inserted (createdAt), as its rank in insertion order
CreatedAt ==
    [t \in {"t1", "t2", "t3", "t4", "t5"} |->
        CASE t = "t1" -> 1 [] t = "t2" -> 2 [] t = "t3" -> 3 [] t = "t4" -> 4 [] OTHER -> 5]

\* parseInt of a query string
parseInt(str) == CASE str = "0" -> 0 [] str = "1" -> 1 [] str = "2" -> 2 [] OTHER -> 10

\* const { limit = 10, offset = 0 } = req.query, then parseInt
LimitOf(query) == IF query.limit = NULL THEN 10 ELSE parseInt(query.limit)
OffsetOf(query) == IF query.offset = NULL THEN 0 ELSE parseInt(query.offset)

\* whereClause: the company, and each filter that is present
MatchesWhere(row, companyId, query) ==
    /\ row.companyId = companyId
    /\ query.status # NULL => row.status = query.status
    /\ query.internalStatus # NULL => row.internalStatus = query.internalStatus
    /\ query.customerId # NULL => row.customer = query.customerId

\* the store evaluates a comparison with an ENUM column only for a value
\* of the enum
WhereAccepted(query) ==
    /\ query.status # NULL => query.status \in TransactionStatusEnum
    /\ query.internalStatus # NULL => query.internalStatus \in InternalStatusEnum

\* order: [['createdAt', 'DESC']]
RECURSIVE NewestFirst(_)
NewestFirst(ids) ==
    IF ids = {} THEN <<>>
    ELSE LET newest == CHOOSE t \in ids : \A u \in ids : CreatedAt[u] <= CreatedAt[t]
         IN  <<newest>> \o NewestFirst(ids \ {newest})

\* OFFSET offset LIMIT limit
Page(rows, limit, offset) ==
    SubSeq(rows, offset + 1, IF offset + limit < Len(rows) THEN offset + limit ELSE Len(rows))

\* getPaymentHistory: the response body is the list of the ids of the rows
getPaymentHistory(companyId, query, dbOk) ==
    IF ~dbOk
    THEN [res |-> asyncHandler(TRUE, 200), body |-> <<>>, trace |-> <<"Company.findByPk">>]
    ELSE IF companyId \notin DOMAIN companies
    THEN [res |-> 404, body |-> <<>>, trace |-> <<"Company.findByPk">>]
    ELSE IF ~WhereAccepted(query)
    THEN [res |-> asyncHandler(TRUE, 200), body |-> <<>>,
          trace |-> <<"Company.findByPk", "PaymentTransaction.findAndCountAll">>]
    ELSE [res |-> 200,
          body |-> Page(NewestFirst({t \in DOMAIN transactions :
                                        MatchesWhere(transactions[t], companyId, query)}),
                        LimitOf(query), OffsetOf(query)),
          trace |-> <<"Company.findByPk", "PaymentTransaction.findAndCountAll">>]

\* the query strings a client sends
HistoryQueries ==
    { [NoArgs EXCEPT !.status = st, !.internalStatus = ist, !.customerId = cu,
                     !.limit = li, !.offset = off] :
        st \in {NULL, "succeeded"}, ist \in {NULL, "approved", "declined"},
        cu \in {NULL, "cus_tester"}, li \in {NULL, "1", "2"}, off \in {NULL, "1"} }

\* GET /transactions/company/:companyId: parseGatewayHeaders,
\* authorizeCompanyAccess, then the handler
GetPaymentHistory ==
    /\ Idle
    /\ \E headers \in GatewayHeaders, companyId \in {"c1", "c2", "c9"},
          query \in HistoryQueries, dbOk \in BOOLEAN :
        LET args == WithHeaders([query EXCEPT !.id = companyId], headers)
            ext == [NoExt EXCEPT !.dbOk = dbOk]
            r == getPaymentHistory(companyId, query, dbOk)
        IN  IF ~parseGatewayHeaders(headers)
            THEN dbOk /\ last' = ApiRecord("getPaymentHistory", args, ext, 401, <<>>)
            ELSE IF ~authorizeCompanyAccess(headers, companyId)
            THEN dbOk /\ last' = ApiRecord("getPaymentHistory", args, ext, 403, <<>>)
            ELSE last' = [ApiRecord("getPaymentHistory", args, ext, r.res, r.trace)
                             EXCEPT !.body = r.body]
    /\ UNCHANGED <<env, applied, running, companies, transactions>>

\* a store that holds two companies and the transactions of two customers
InitGateway ==
    /\ env \in EnvConfigs
    /\ companies = [c \in {"c1", "c2"} |-> NewCompany]
    /\ transactions = [t \in {"t1", "t2", "t4", "t5"} |->
                          CASE t = "t1" -> NewTransaction("pi_1", NULL)
                            [] t = "t2" -> NewTransaction("pi_2", "sub_1")
                            [] t = "t4" -> [NewTransaction("pi_4", NULL) EXCEPT
                                               !.companyId = "c2", !.customer = "cus_buyer"]
                            [] OTHER -> [NewTransaction("pi_5", NULL) EXCEPT
                                               !.customer = "cus_buyer"]]
    /\ last = NoRequest
    /\ applied = {}
    /\ running = <<>>

----------------------------------------------------------------------------
Init ==
    /\ env \in EnvConfigs
    /\ companies = [c \in {"c1"} |-> NewCompany]
    /\ transactions = [t \in TransactionIds |->
                          IF t = "t1" THEN NewTransaction("pi_1", NULL)
                          ELSE NewTransaction("pi_2", "sub_1")]
    /\ last = NoRequest
    /\ applied = {}
    /\ running = <<>>

\* every operation of the service
Next ==
    \/ DeliverPaymentEvent
    \/ DeliverSubscriptionEvent
    \/ DeliverUnhandledEvent
    \/ DeliverUnverified
    \/ Redeliver
    \/ Finish
    \/ UpdateTransactionInternalStatus
    \/ CancelSubscription
    \/ CreatePaymentIntent
    \/ GetTransactionById
    \/ CreateCompany
    \/ UpdateCompany
    \/ UpdateCompanyStripeAccount
    \/ DeleteCompany
    \/ CreateSubscriptionCheckoutSession

Spec == Init /\ [][Next]_vars

\* the operations that read or write the PaymentTransaction store
NextTransactions ==
    \/ DeliverPaymentEvent
    \/ DeliverUnhandledEvent
    \/ DeliverUnverified
    \/ Redeliver
    \/ Finish
    \/ UpdateTransactionInternalStatus
    \/ UpdateCompanyStripeAccount
    \/ CancelSubscription
    \/ CreatePaymentIntent
    \/ GetTransactionById

SpecTransactions == Init /\ [][NextTransactions]_vars

\* the operations that read or write the Company store
NextCompanies ==
    \/ DeliverSubscriptionEvent
    \/ DeliverUnhandledEvent
    \/ DeliverUnverified
    \/ Redeliver
    \/ Finish
    \/ CreateCompany
    \/ UpdateCompany
    \/ DeleteCompany
    \/ CreateSubscriptionCheckoutSession

SpecCompanies == Init /\ [][NextCompanies]_vars

\* payment events, their later duplicates and the operator's status changes
NextDuplicates ==
    \/ DeliverAndRemember
    \/ DeliverDuplicate
    \/ UpdateTransactionInternalStatus
    \/ Finish

SpecDuplicates == Init /\ [][NextDuplicates]_vars

\* createPaymentIntent racing with the event of its intent; the store
\* eventually answers, the insert is eventually attempted and the
\* processor keeps delivering an event that is not acknowledged
NextRace ==
    \/ RaceBegin
    \/ RaceCommit
    \/ RacePay
    \/ RaceDeliver
    \/ RaceDeliverStoreDown
    \/ UpdateCompanyStripeAccount
    \/ Finish

SpecRace ==
    /\ Init
    /\ [][NextRace]_vars
    /\ WF_vars(RaceCommit)
    /\ WF_vars(RaceDeliver)

\* the routes behind the gateway middleware
NextGateway ==
    \/ GetPaymentHistory
    \/ PutInternalStatus
    \/ DeliverPaymentEvent
    \/ Finish

SpecGateway == InitGateway /\ [][NextGateway]_vars

\* every webhook case, with more than one Company in the store
NextFrame ==
    \/ DeliverPaymentEvent
    \/ DeliverSubscriptionEvent
    \/ CreateCompany
    \/ CreateSubscriptionCheckoutSession
    \/ Finish

SpecFrame == Init /\ [][NextFrame]_vars

\* checkout sessions, between the requests that prepare their rows
NextCheckout ==
    \/ DeliverCheckoutSession
    \/ CreateSubscriptionCheckoutSession
    \/ UpdateTransactionInternalStatus
    \/ Finish

SpecCheckout == Init /\ [][NextCheckout]_vars

\* subscription events of one customer
NextSubscriptions ==
    \/ DeliverSubscriptionChange
    \/ CreateSubscriptionCheckoutSession
    \/ Finish

SpecSubscriptions == Init /\ [][NextSubscriptions]_vars

\* pairs of createSubscriptionCheckoutSession requests whose calls interleave
NextCheckoutRace ==
    \/ StartCheckoutPair
    \/ StepCheckout
    \/ EndCheckoutPair
    \/ QuietCreateSubscriptionCheckoutSession
    \/ QuietFinish

SpecCheckoutRace == Init /\ [][NextCheckoutRace]_vars

\* pairs of deliveries whose store calls interleave
NextInterleave ==
    \/ StartPair
    \/ StepDelivery
    \/ EndPair
    \/ QuietCreateSubscriptionCheckoutSession
    \/ QuietFinish

SpecInterleave == Init /\ [][NextInterleave]_vars

----------------------------------------------------------------------------
(* Properties *)

\* the rows a payment-intent id selects
RowsOf(txs, paymentIntentId) ==
    {t \in DOMAIN txs : txs[t].stripePaymentIntentId = paymentIntentId}

\* the store calls a trace holds besides verification and the two sinks
StoreAndProcessorCalls(trace) ==
    {trace[i] : i \in DOMAIN trace} \ {"constructEvent", "log", "notify"}

\* C1: a payment_intent.succeeded event applied to an existing transaction
\* sets the row of that payment-intent id to succeeded / awaiting_approval
\* and leaves every other row as it was; every further application of the
\* same event, with nothing in between, leaves both stores exactly as the
\* first application left them.
C1_SucceededIsIdempotent ==
    [][ (/\ last'.op = "handleWebhook"
         /\ last'.sig = "valid"
         /\ last'.type = "payment_intent.succeeded"
         /\ RowsOf(transactions, last'.object.id) # {})
        => /\ DOMAIN transactions' = DOMAIN transactions
           /\ companies' = companies
           /\ \A t \in DOMAIN transactions \ RowsOf(transactions, last'.object.id) :
                  transactions'[t] = transactions[t]
           /\ last'.res = 200 =>
                  \A t \in RowsOf(transactions, last'.object.id) :
                      /\ transactions'[t].status = "succeeded"
                      /\ transactions'[t].internalStatus = "awaiting_approval"
           /\ last'.redelivery =>
                  /\ transactions' = transactions
                  /\ \A t \in RowsOf(transactions, last'.object.id) :
                         /\ transactions[t].status = "succeeded"
                         /\ transactions[t].internalStatus = "awaiting_approval" ]_vars

\* the event of pi_1 has been applied a second time and was acknowledged
C1_Witness ==
    /\ last.op = "handleWebhook"
    /\ last.type = "payment_intent.succeeded"
    /\ last.redelivery
    /\ last.res = 200
    /\ last.object.id = "pi_1"
    /\ transactions["t1"].status = "succeeded"
    /\ transactions["t1"].internalStatus = "awaiting_approval"
    /\ transactions["t2"].status = "pending"

\* C2: a delivery whose signature is missing, mismatching or stale is
\* answered 400; neither store changes and the request makes no call after
\* the verification: no re-fetch, no store call, no sink call.
C2_UnverifiedIsRejected ==
    [][ (last'.op = "handleWebhook" /\ last'.sig # "valid")
        => /\ last'.res = 400
           /\ companies' = companies
           /\ transactions' = transactions
           /\ last'.trace = <<"constructEvent">> ]_vars

\* a stale delivery of a subscription event for a known customer was rejected
C2_Witness ==
    /\ last.op = "handleWebhook"
    /\ last.sig = "stale"
    /\ last.type = "customer.subscription.updated"
    /\ last.res = 400
    /\ FindCompanyByCustomer(companies, last.object.customer) # {}

\* C3: a verified event of a type the handler has no case for is
\* acknowledged with 200 and changes neither store, whatever it carries.
C3_UnhandledIsAcknowledged ==
    [][ (/\ last'.op = "handleWebhook"
         /\ last'.sig = "valid"
         /\ last'.type \notin HandledTypes)
        => /\ last'.res = 200
           /\ companies' = companies
           /\ transactions' = transactions
           /\ StoreAndProcessorCalls(last'.trace) = {} ]_vars

\* an unhandled event naming the customer of a subscribed company was acknowledged
C3_Witness ==
    /\ last.op = "handleWebhook"
    /\ last.sig = "valid"
    /\ last.type = "some.unhandled.type"
    /\ last.res = 200
    /\ \E c \in FindCompanyByCustomer(companies, last.object.customer) :
           companies[c].subscriptionStatus = "active"

\* C4: in every reachable state a Company whose subscriptionStatus is
\* canceled or unpaid has accessLevel free.
C4_CanceledOrUnpaidIsFree ==
    \A c \in DOMAIN companies :
        companies[c].subscriptionStatus \in {"canceled", "unpaid"}
            => companies[c].accessLevel = "free"

\* an unpaid subscription carrying the premium plan has just been synced
C4_Witness ==
    /\ last.op = "handleWebhook"
    /\ last.sync.found
    /\ last.sync.planLevel = "premium"
    /\ \E c \in FindCompanyByCustomer(companies, last.sync.customer) :
           /\ companies[c].subscriptionStatus = "unpaid"
           /\ companies[c].accessLevel = "free"

\* the reference mapping of a payload's items to a tier
ReferenceLevel(items) ==
    IF Len(items) = 0 THEN "free"
    ELSE IF env.basic # NULL /\ items[1] = env.basic THEN "basic"
    ELSE IF env.premium # NULL /\ items[1] = env.premium THEN "premium"
    ELSE "free"

\* C5: the level Subscription Sync computes from a payload is the reference
\* mapping of its first item: basic for the configured basic plan id,
\* premium for the configured premium plan id, free for any other id and
\* for a payload without items; it is always free, basic or premium.
C5_PlanMappingIsReference ==
    (last.op = "handleWebhook" /\ last.sync.ran /\ last.sync.found)
        => /\ last.sync.planLevel = ReferenceLevel(last.sync.items)
           /\ last.sync.planLevel \in {"free", "basic", "premium"}

\* an unrecognized plan id was mapped while both plan ids are configured
C5_Witness ==
    /\ last.op = "handleWebhook"
    /\ last.sync.found
    /\ last.sync.items = <<"price_other">>
    /\ last.sync.planLevel = "free"
    /\ env.basic # NULL
    /\ env.premium # NULL

\* C6: a subscription event, direct or re-fetched, whose customer id
\* matches no Company (the store answering) raises no error, changes no
\* Company row and no transaction row, and is acknowledged with 200.
C6_MissingCompanyIsNoOp ==
    [][ (/\ last'.op = "handleWebhook"
         /\ last'.sig = "valid"
         /\ last'.sync.ran
         /\ last'.ext.dbOk
         /\ FindCompanyByCustomer(companies, last'.sync.customer) = {})
        => /\ last'.res = 200
           /\ companies' = companies
           /\ transactions' = transactions ]_vars

C8_FailedIsRecorded ==
    (/\ last.op = "handleWebhook"
     /\ last.sig = "valid"
     /\ last.type = "payment_intent.payment_failed"
     /\ last.ext.dbOk
     /\ RowsOf(transactions, last.object.id) # {})
    => /\ last.res = 200
       /\ \A t \in RowsOf(transactions, last.object.id) :
              /\ transactions[t].status = "failed"
              /\ transactions[t].internalStatus = "declined"

\* C9: updateTransactionInternalStatus with no internalStatus, or with one
\* outside the allowed list, answers 400 without reading or writing a row:
\* the request makes no store call and both stores stay as they were.
C9_InvalidStatusIsRejectedFirst ==
    [][ (/\ last'.op = "updateTransactionInternalStatus"
         /\ last'.args.internalStatus \notin
                {"awaiting_approval", "approved", "declined", "fulfilled", "canceled_by_business"})
        => /\ last'.res = 400
           /\ last'.trace = <<>>
           /\ transactions' = transactions
           /\ companies' = companies ]_vars

\* a request naming an existing row with an unknown status was rejected
C9_Witness ==
    /\ last.op = "updateTransactionInternalStatus"
    /\ last.args.internalStatus = "bogus"
    /\ last.args.id \in DOMAIN transactions
    /\ last.res = 400

\* how often a call appears in a trace
Count(trace, call) == Cardinality({i \in DOMAIN trace : trace[i] = call})

\* C10: for every handled event type, the delivery ends as the same
\* delivery with both sink calls succeeding ends: the same rows, the same
\* response (200 when nothing else fails), and each sink is called at most
\* once in the request.
C10_SinkFailureIsHarmless ==
    [][ (/\ last'.op = "handleWebhook"
         /\ last'.sig = "valid"
         /\ last'.type \in HandledTypes)
        => LET sinksUp == [last'.ext EXCEPT !.logOk = TRUE, !.notifOk = TRUE]
               r == handleWebhook("valid", last'.type, last'.object, sinksUp, last'.redelivery)
           IN  /\ companies' = r.companies
               /\ transactions' = r.transactions
               /\ last'.res = r.last.res
               /\ Count(last'.trace, "log") <= 1
               /\ Count(last'.trace, "notify") <= 1 ]_vars

\* C11: when the re-fetch of the subscription fails while handling
\* checkout.session.completed (subscription mode), invoice.paid or
\* invoice.payment_failed, the delivery is answered 500 and no Company row
\* and no transaction row changes.
C11_RefetchFailurePropagates ==
    [][ (/\ last'.op = "handleWebhook"
         /\ last'.sig = "valid"
         /\ last'.type \in {"checkout.session.completed", "invoice.paid", "invoice.payment_failed"}
         /\ last'.ext.stripe = <<FALSE>>)
        => /\ last'.res = 500
           /\ companies' = companies
           /\ transactions' = transactions
           /\ ~last'.sync.ran ]_vars

\* the re-fetch failed for an invoice.paid event while a company holds a
\* subscription, and the delivery was answered 500
C11_Witness ==
    /\ last.op = "handleWebhook"
    /\ last.type = "invoice.paid"
    /\ last.ext.stripe = <<FALSE>>
    /\ last.res = 500
    /\ \E c \in DOMAIN companies : companies[c].subscriptionStatus = "active"

\* C12: once the processor has queued payment_intent.succeeded for the
\* intent createPaymentIntent created, the transaction of that intent
\* eventually has status succeeded (or the row insert has failed), given
\* that the insert is eventually attempted and that the processor
\* delivers the event again until it is acknowledged with 200.
C12_SucceededEventuallyRecorded ==
    (running # <<>> /\ running[1].outbox = "pending")
        ~> \/ /\ CreatedTransactionId \in DOMAIN transactions
               /\ transactions[CreatedTransactionId].status = "succeeded"
           \/ running # <<>> /\ running[1].pc = "failed"

\* C13: for each handled event type, handling the same event again right
\* after it was handled (the store answering both times, a re-fetch
\* returning the same subscription, the clock possibly later) leaves every
\* Company row and every transaction row as the first handling left them.
C13_HandlersAreIdempotent ==
    [][ (/\ last.op = "handleWebhook"
         /\ last'.op = "handleWebhook"
         /\ last'.redelivery
         /\ last'.sig = "valid"
         /\ last'.type \in HandledTypes
         /\ last.ext.dbOk
         /\ last'.ext.dbOk
         /\ last'.ext.stripe = last.ext.stripe
         /\ last'.ext.subscription = last.ext.subscription)
        => /\ companies' = companies
           /\ transactions' = transactions ]_vars

\* C14: a further delivery of an event that has already been applied
\* leaves both stores exactly as they were just before it, whatever ran
\* since the event was applied.
C14_DuplicateChangesNothing ==
    [][ (/\ last'.op = "handleWebhook"
         /\ last'.redelivery
         /\ EventOf(last'.type, last'.object) \in applied)
        => /\ companies' = companies
           /\ transactions' = transactions ]_vars

\* the stores after one delivery handled alone, from first store call to
\* answer
AtomicEffect(stores, d) ==
    IF FirstStoreCall(d.type) = "Company.findOne"
    THEN [stores EXCEPT !.companies =
             updateCompanySubscriptionStatus(stores.companies, d.object.customer,
                                             SyncPayload(d), TRUE, TRUE).companies]
    ELSE [stores EXCEPT !.transactions =
             IF EnumAccepts(WrittenStatus(d.type), WrittenInternalStatus(d.type))
             THEN UpdateByPaymentIntent(stores.transactions, WrittenStatus(d.type),
                                        WrittenInternalStatus(d.type), SelectedPaymentIntent(d))
             ELSE stores.transactions]

BothAnswered == Len(running) = 2 /\ \A i \in 1..2 : running[i].pc = "done"

\* C15: when two deliveries naming the same customer or the same payment
\* intent are handled at once, each store read and each single-row update
\* being one step, the stores they leave are the stores one of the two
\* serial orders leaves.
C15_InterleavingIsSerializable ==
    BothAnswered =>
        LET d1 == running[1]
            d2 == running[2]
            now == [companies |-> companies, transactions |-> transactions]
        IN  \/ now = AtomicEffect(AtomicEffect(d1.base, d1), d2)
            \/ now = AtomicEffect(AtomicEffect(d1.base, d2), d1)

\* two different subscription events, each read the row before the other
\* wrote it, and each wrote it
C15_Witness ==
    /\ BothAnswered
    /\ \A i \in 1..2 :
        /\ running[i].type = "customer.subscription.updated"
        /\ running[i].read.key = "c1"
        /\ running[i].read.row = running[i].base.companies["c1"]
        /\ running[i].read.row.subscriptionStatus # NULL
        /\ SyncedCompany(running[i].read.row, SyncPayload(running[i])) # running[i].read.row
    /\ running[1].object # running[2].object
    /\ companies # running[1].base.companies

\* the request just handled is a cancelSubscription whose processor call
\* returned and whose findOne found the row t
CanceledAtProcessor(t) ==
    /\ last.op = "cancelSubscription"
    /\ last.ext.stripe = <<TRUE>>
    /\ last.ext.dbOk
    /\ t \in FindTransactionBySubscription(transactions, last.args.id)

\* C16: once updateTransactionInternalStatus with notes and then
\* cancelSubscription have been handled for the same transaction, its
\* metadata holds the keys it had before, internalNotes and
\* cancellationTimestamp.
C16_MetadataIsAdditive ==
    \A t \in DOMAIN transactions :
        (CanceledAtProcessor(t) /\ "internalNotes" \in DOMAIN transactions[t].metadata)
        => /\ {"customerId", "internalNotes", "cancellationTimestamp"}
                  \subseteq DOMAIN transactions[t].metadata
           /\ transactions[t].metadata["customerId"] = "cus_tester"

C18_WritesAreAccepted ==
    /\ \A t \in DOMAIN transactions :
           EnumAccepts(transactions[t].status, transactions[t].internalStatus)
    /\ (/\ last.op \in {"handleWebhook", "updateTransactionInternalStatus", "cancelSubscription"}
        /\ last.ext.dbOk
        /\ StoreAndProcessorCalls(last.trace)
               \cap {"PaymentTransaction.update", "transaction.save", "transaction.update"} # {})
       => last.res = 200

\* C19: cancelSubscription with the processor call returning marks the row
\* of the subscription canceled and canceled_by_user, adds
\* cancellationTimestamp to its metadata keeping the other keys, and
\* answers 200; without a row it answers 200 and changes nothing; with the
\* processor call failing no row changes.
C19_CancelMarksTheRow ==
    [][ (last.op = "none" /\ last'.op = "cancelSubscription")
        => LET found == FindTransactionBySubscription(transactions, last'.args.id)
           IN  /\ (last'.ext.stripe = <<TRUE>> /\ last'.ext.dbOk /\ found # {})
                   => /\ last'.res = 200
                      /\ \E t \in found :
                             transactions' = [transactions EXCEPT ![t] =
                                 [transactions[t] EXCEPT
                                     !.status = "canceled",
                                     !.internalStatus = "canceled_by_user",
                                     !.metadata = Spread(transactions[t].metadata,
                                                         "cancellationTimestamp",
                                                         toISOString(last'.ext.now))]]
               /\ (last'.ext.stripe = <<TRUE>> /\ last'.ext.dbOk /\ found = {})
                   => last'.res = 200 /\ transactions' = transactions
               /\ last'.ext.stripe = <<FALSE>> => transactions' = transactions ]_vars

\* C20: a processor failure of type StripeInvalidRequestError is answered
\* 404 and any other processor failure 500, and cancelSubscription
\* answers 404 or 500 only when the processor did not cancel the
\* subscription.
C20_FailureMeansNotCanceled ==
    last.op = "cancelSubscription"
    => /\ (last.ext.stripe = <<FALSE>> /\ last.ext.errorType = "StripeInvalidRequestError")
           => last.res = 404
       /\ (last.ext.stripe = <<FALSE>> /\ last.ext.errorType # "StripeInvalidRequestError")
           => last.res = 500
       /\ last.res \in {404, 500} => last.ext.stripe = <<FALSE>>

\* C21: updateTransactionInternalStatus with an internalStatus of the
\* allowed list, the store answering: for an absent id it answers 404 and
\* changes nothing; otherwise the row gets the requested internalStatus,
\* the note (if any) is added to its metadata as internalNotes, and every
\* other field of the row and every other row stay as they were.
C21_UpdateSetsOnlyInternalStatus ==
    [][ (/\ last.op = "none"
         /\ last'.op = "updateTransactionInternalStatus"
         /\ ValidInternalStatus(last'.args.internalStatus)
         /\ last'.ext.dbOk)
        => LET t == last'.args.id
           IN  IF t \notin DOMAIN transactions
               THEN last'.res = 404 /\ transactions' = transactions
               ELSE transactions' = [transactions EXCEPT ![t] =
                        [transactions[t] EXCEPT
                            !.internalStatus = last'.args.internalStatus,
                            !.metadata = IF last'.args.notes # NULL
                                         THEN Spread(transactions[t].metadata, "internalNotes",
                                                     last'.args.notes)
                                         ELSE transactions[t].metadata]] ]_vars

\* C22: getTransactionById answers 200 when a row has the id of the route
\* and 404 when none has.
C22_GetAnswersByExistence ==
    last.op = "getTransactionById"
    => IF last.args.id \in DOMAIN transactions THEN last.res = 200 ELSE last.res = 404

\* C23: createPaymentIntent rejects a request that lacks one of
\* companyId, amount, currency and customerId with 400 before any call, and
\* the row it creates carries the companyId of the request.
C23_CreateUsesRequestValues ==
    last.op = "createPaymentIntent"
    => /\ ~last.args.complete => last.res = 400 /\ last.trace = <<>>
       /\ (last.res = 201 /\ CreatedTransactionId \in DOMAIN transactions)
           => transactions[CreatedTransactionId].companyId = last.args.id

\* the position of the first call of a kind in a trace (0: never made)
FirstOf(trace, calls) ==
    IF \E i \in DOMAIN trace : trace[i] \in calls
    THEN CHOOSE i \in DOMAIN trace : trace[i] \in calls /\ \A j \in 1..(i - 1) : trace[j] \notin calls
    ELSE 0

\* C24: in one delivery verification comes first, a delivery that fails
\* verification makes no other call, and no audit or notification sink
\* call is made before the store mutation of the matched case.
C24_SinksFollowTheMutation ==
    last.op = "handleWebhook"
    => LET sink == FirstOf(last.trace, {"log", "notify"})
           mutation == FirstOf(last.trace, {"company.update", "PaymentTransaction.update"})
       IN  /\ last.trace[1] = "constructEvent"
           /\ last.sig # "valid" => last.trace = <<"constructEvent">>
           /\ (sink # 0 /\ mutation # 0) => mutation < sink

\* C25: a subscription event whose customer id matches a Company is
\* acknowledged with 200 only if the Company row update was committed.
C25_AcknowledgedMeansCommitted ==
    (/\ last.op = "handleWebhook"
     /\ last.sync.ran
     /\ last.sync.found
     /\ last.res = 200)
    => last.sync.committed

\* C26: once customer.subscription.deleted of a subscription has been
\* applied to a Company, a customer.subscription.updated event of the same
\* subscription handled later leaves the Company without a paid
\* accessLevel and without an active subscriptionStatus.
C26_DeletionIsFinal ==
    [][ (/\ last.op = "none"
         /\ last'.op = "handleWebhook"
         /\ last'.type = "customer.subscription.updated"
         /\ \E e \in applied : /\ e.type = "customer.subscription.deleted"
                                /\ e.object.id = last'.object.id
                                /\ e.object.customer = last'.object.customer)
        => \A c \in FindCompanyByCustomer(companies', last'.object.customer) :
               /\ companies'[c].accessLevel = "free"
               /\ companies'[c].subscriptionStatus # "active" ]_vars

\* the request just handled is a verified customer.subscription.deleted
\* whose customer has a Company
DeletedForCompany(c) ==
    /\ last.op = "handleWebhook"
    /\ last.sig = "valid"
    /\ last.type = "customer.subscription.deleted"
    /\ c \in FindCompanyByCustomer(companies, last.object.customer)

\* the Company fields Subscription Sync writes, after a deletion handled at
\* the instant expiresAt
IsCanceledAt(row, subscriptionId, expiresAt) ==
    /\ row.subscriptionStatus = "canceled"
    /\ row.accessLevel = "free"
    /\ row.stripeSubscriptionId = subscriptionId
    /\ row.subscriptionExpiresAt = <<expiresAt>>

C27_UnmatchedPaymentIsNoOp ==
    [][ (/\ last.op = "none"
         /\ last'.op = "handleWebhook"
         /\ last'.sig = "valid"
         /\ last'.ext.dbOk
         /\ \/ /\ last'.type \in {"payment_intent.succeeded", "payment_intent.payment_failed"}
               /\ RowsOf(transactions, last'.object.id) = {}
            \/ /\ last'.type = "checkout.session.completed"
               /\ last'.object.mode = "payment"
               /\ last'.object.payment_intent # NULL
               /\ RowsOf(transactions, last'.object.payment_intent) = {})
        => /\ last'.res = 200
           /\ transactions' = transactions
           /\ companies' = companies ]_vars

\* C28: checkout.session.completed in payment mode with a payment intent
\* makes the mutation payment_intent.succeeded makes for that intent; in
\* subscription mode with a subscription id it re-fetches the subscription
\* and runs Subscription Sync for the customer of the re-fetched
\* subscription; in any other mode, or without the id, it mutates nothing
\* and is acknowledged.
C28_CheckoutFollowsItsMode ==
    [][ (/\ last.op = "none"
         /\ last'.op = "handleWebhook"
         /\ last'.sig = "valid"
         /\ last'.type = "checkout.session.completed")
        => LET o == last'.object
               ext == last'.ext
           IN  IF o.mode = "payment" /\ o.payment_intent # NULL
               THEN /\ transactions' =
                           PaymentIntentSucceeded([NoObject EXCEPT !.id = o.payment_intent], ext).transactions
                    /\ ext.dbOk => \A t \in RowsOf(transactions', o.payment_intent) :
                                       /\ transactions'[t].status = "succeeded"
                                       /\ transactions'[t].internalStatus = "awaiting_approval"
                    /\ companies' = companies
               ELSE IF o.mode = "subscription" /\ o.subscription # NULL
               THEN /\ Count(last'.trace, "subscriptions.retrieve") = 1
                    /\ transactions' = transactions
                    /\ ext.stripe = <<TRUE>> =>
                           /\ last'.sync.ran
                           /\ last'.sync.customer = ext.subscription.customer
                           /\ last'.sync.id = o.subscription
                           /\ companies' = updateCompanySubscriptionStatus(
                                               companies, ext.subscription.customer,
                                               ext.subscription, ext.dbOk, ext.updateOk).companies
               ELSE /\ last'.res = 200
                    /\ StoreAndProcessorCalls(last'.trace) = {}
                    /\ transactions' = transactions
                    /\ companies' = companies ]_vars

\* a payment-mode checkout session was handled for the intent of row t1,
\* which is now succeeded and awaiting approval
C28_Witness ==
    /\ last.op = "handleWebhook"
    /\ last.type = "checkout.session.completed"
    /\ last.object.mode = "payment"
    /\ last.object.payment_intent = "pi_1"
    /\ last.res = 200
    /\ transactions["t1"].status = "succeeded"
    /\ transactions["t1"].internalStatus = "awaiting_approval"

\* C30: invoice.paid re-fetches the subscription and runs Subscription
\* Sync only for the billing reasons subscription_create and
\* subscription_cycle; for any other billing reason it makes no processor
\* or store call, mutates nothing and is acknowledged with 200.
C30_InvoicePaidSyncsOnCreateAndCycle ==
    [][ (/\ last.op = "none"
         /\ last'.op = "handleWebhook"
         /\ last'.sig = "valid"
         /\ last'.type = "invoice.paid")
        => IF last'.object.billing_reason \in {"subscription_create", "subscription_cycle"}
           THEN /\ Count(last'.trace, "subscriptions.retrieve") = 1
                /\ last'.ext.stripe = <<TRUE>> =>
                       /\ last'.sync.ran
                       /\ last'.sync.customer = last'.ext.subscription.customer
           ELSE /\ StoreAndProcessorCalls(last'.trace) = {}
                /\ ~last'.sync.ran
                /\ companies' = companies
                /\ transactions' = transactions
                /\ last'.res = 200 ]_vars

\* an invoice paid for another reason, naming a subscription, was
\* acknowledged while a Company holds the customer of that subscription
C30_Witness ==
    /\ last.op = "handleWebhook"
    /\ last.sig = "valid"
    /\ last.type = "invoice.paid"
    /\ last.object.billing_reason = "manual"
    /\ last.object.subscription = "sub_1"
    /\ last.res = 200
    /\ FindCompanyByCustomer(companies, "cus_1") # {}

\* the fields of a row that differ between two versions of it
ChangedFields(old, new) == {f \in DOMAIN old : new[f] # old[f]}

\* the payment intent a payment case selects rows by (NULL: not a payment case)
PaymentIntentOf(type, dataObject) ==
    IF type \in {"payment_intent.succeeded", "payment_intent.payment_failed"} THEN dataObject.id
    ELSE IF type = "checkout.session.completed" /\ dataObject.mode = "payment"
    THEN dataObject.payment_intent
    ELSE NULL

\* C31: handling a webhook delivery creates and deletes no row; a
\* transaction it changes is one whose payment intent the event names, and
\* only its status and internalStatus change, the Company store staying as
\* it was; a Company it changes is one whose customer id Subscription Sync
\* was called with, and only its stripeSubscriptionId, subscriptionStatus,
\* accessLevel and subscriptionExpiresAt change, the Transaction Store
\* staying as it was.
C31_WebhookFrame ==
    [][ last'.op = "handleWebhook"
        => /\ DOMAIN companies' = DOMAIN companies
           /\ DOMAIN transactions' = DOMAIN transactions
           /\ \A t \in DOMAIN transactions :
                  transactions'[t] # transactions[t]
                  => /\ transactions[t].stripePaymentIntentId
                            = PaymentIntentOf(last'.type, last'.object)
                     /\ ChangedFields(transactions[t], transactions'[t])
                            \subseteq {"status", "internalStatus"}
                     /\ companies' = companies
           /\ \A c \in DOMAIN companies :
                  companies'[c] # companies[c]
                  => /\ last'.sync.ran
                     /\ companies[c].stripeCustomerId = last'.sync.customer
                     /\ ChangedFields(companies[c], companies'[c])
                            \subseteq {"stripeSubscriptionId", "subscriptionStatus",
                                        "accessLevel", "subscriptionExpiresAt"}
                     /\ transactions' = transactions ]_vars

\* Subscription Sync was committed for a Company while another Company is
\* in the store
C31_Witness ==
    /\ last.op = "handleWebhook"
    /\ last.sync.committed
    /\ Cardinality(DOMAIN companies) = 2
    /\ \E c \in DOMAIN companies : companies[c].subscriptionStatus = "active"

\* C32: a webhook delivery ends with one response, 200, 400 or 500, after
\* one verification, at most one audit-log call, at most one processor
\* re-fetch, at most two row updates and at most one notification call.
C32_OneResponseBoundedFanOut ==
    last.op = "handleWebhook"
    => /\ last.res \in {200, 400, 500}
       /\ Count(last.trace, "constructEvent") = 1
       /\ Count(last.trace, "log") <= 1
       /\ Count(last.trace, "subscriptions.retrieve") <= 1
       /\ Count(last.trace, "company.update") + Count(last.trace, "PaymentTransaction.update") <= 2
       /\ Count(last.trace, "notify") <= 1

\* a delivery that made every kind of call: audit log, re-fetch, row
\* update and a notification whose failure was answered 500
C32_Witness ==
    /\ last.op = "handleWebhook"
    /\ last.type = "invoice.payment_failed"
    /\ last.res = 500
    /\ {"log", "subscriptions.retrieve", "company.update", "notify"}
           \subseteq {last.trace[i] : i \in DOMAIN last.trace}

\* the position a matching row has in the full list, newest first
RankIn(ids, t) == Cardinality({u \in ids : CreatedAt[u] > CreatedAt[t]})

\* C33: getPaymentHistory, authorized and with the store answering,
\* answers 404 for a missing company; for an existing company it answers
\* 200 with the transactions of that company that match every supplied
\* filter, newest first, without the first offset rows and with at most
\* limit rows (defaults 0 and 10).
C33_HistoryIsTheFilteredPage ==
    (/\ last.op = "getPaymentHistory"
     /\ last.res \notin {401, 403}
     /\ last.ext.dbOk)
    => IF last.args.id \notin DOMAIN companies
       THEN last.res = 404
       ELSE LET matching == {t \in DOMAIN transactions :
                                MatchesWhere(transactions[t], last.args.id, last.args)}
                limit == LimitOf(last.args)
                offset == OffsetOf(last.args)
            IN  /\ last.res = 200
                /\ {last.body[i] : i \in DOMAIN last.body}
                       = {t \in matching : /\ offset <= RankIn(matching, t)
                                             /\ RankIn(matching, t) < offset + limit}
                /\ \A i \in DOMAIN last.body :
                       RankIn(matching, last.body[i]) = offset + i - 1

\* C36: a request to updateTransactionInternalStatus from a user who is
\* not an admin and whose company is not the company of the transaction
\* leaves the transaction as it was.
C36_OnlyAuthorizedOperatorsUpdate ==
    [][ (/\ last'.op = "updateTransactionInternalStatus"
         /\ last'.args.userRole # "admin"
         /\ last'.args.id \in DOMAIN transactions
         /\ last'.args.userCompanyId # transactions[last'.args.id].companyId)
        => transactions'[last'.args.id] = transactions[last'.args.id] ]_vars

\* C34: createPaymentIntent answers 201 only when a pending row holds the
\* id of the created intent, answers 404 without a processor call, and
\* never answers with an error after the processor created an intent for
\* which no row exists.
C34_IntentAndRowAgree ==
    last.op = "createPaymentIntent"
    => LET intentCreated == /\ Count(last.trace, "paymentIntents.create") = 1
                            /\ last.ext.stripe[1]
           hasRow == \E t \in DOMAIN transactions :
                        /\ transactions[t].stripePaymentIntentId = CreatedPaymentIntentId
                        /\ transactions[t].status = "pending"
       IN  /\ last.res = 201 => hasRow
           /\ last.res = 404 => Count(last.trace, "paymentIntents.create") = 0
           /\ (last.res # 201 /\ intentCreated) => hasRow

\* C35: when concurrent createSubscriptionCheckoutSession requests for a
\* company that had no stripeCustomerId have all answered, the processor
\* created at most one customer for the company and every checkout
\* session was created for the customer id stored in the Company row.
C35_OneCustomerPerCompany ==
    (Len(running) = 2 /\ \A i \in 1..2 : running[i].pc = "done")
    => \A c \in DOMAIN companies :
        LET calls == {i \in 1..2 : /\ running[i].companyId = c
                                   /\ running[i].base[c].stripeCustomerId = NULL}
        IN  /\ Cardinality({running[i].created : i \in calls} \ {NULL}) <= 1
            /\ \A i \in calls :
                   running[i].session # NULL
                   => running[i].session = companies[c].stripeCustomerId

====
